---- MODULE Spec2Model ----
(***************************************************************************)
(* embedded-fat: the file cursor (src/src/file.rs), the directory entry    *)
(* iterators (src/src/directory_entry/iterator), the directory item        *)
(* reconstruction (src/src/directory_item), the single-access device       *)
(* (src/src/device/single_access.rs) and the path lookup                   *)
(* (src/src/file_system.rs) as state machines; the boot sector             *)
(* (src/src/boot_sector), FileSystem::new, the allocation-table entries    *)
(* (src/src/allocation_table) and the stored short name                    *)
(* (src/src/directory_entry/short_name.rs) as functions applied to an      *)
(* input; the device calls of the core operations under a device fault;    *)
(* the classification of a directory record                                *)
(* (src/src/directory_entry.rs), the byte addresses computed from cluster  *)
(* numbers, and the item builder fed record by record.                     *)
(*                                                                         *)
(* Machine words are modelled with scaled-down widths: a u32 is a word of  *)
(* U32Bits bits and an i64/u64 a word of I64Bits bits, so that every       *)
(* overflow case of the Rust arithmetic is within reach of model checking. *)
(* The boot sector and the allocation-table entries keep the widths of the *)
(* format: their values are the ones the thresholds of FAT are about.      *)
(***************************************************************************)
EXTENDS Integers, Sequences, FiniteSets, TLC

\* ------------------------------------------------------------------ bounds

\* Width of the words that stand for u32 (positions, sizes, cluster numbers).
U32Bits == 3

\* Width of the words that stand for i64 / u64 (seek offsets, device addresses).
I64Bits == 5

\* Data clusters of the volume are numbered 2 .. LastCluster.
LastCluster == 3

\* Largest caller buffer handed to File::read.
MaxBufLen == 2

\* Largest file_size of the opened file.
MaxFileSize == 5

\* Relative seeks move by at most MaxStep bytes, or by an extreme i64 offset.
MaxStep == 2

\* ------------------------------------------------------------- machine words

U32Max == 2 ^ U32Bits - 1

I64Max == 2 ^ (I64Bits - 1) - 1

I64Min == 0 - 2 ^ (I64Bits - 1)

U64Max == 2 ^ I64Bits - 1

\* Two's complement wrap of an exact integer into an i64 word.
WrapI64(x) == ((x - I64Min) % (2 ^ I64Bits)) + I64Min

\* Wrap of an exact integer into a u32 word.
WrapU32(x) == x % (2 ^ U32Bits)

Min(a, b) == IF a < b THEN a ELSE b

\* ------------------------------------------------------------------- state

VARIABLES
    file,               \* the File struct (file.rs:24-41)
    allocation_table,   \* the on-disk allocation table: cluster -> logical entry
    is_async,           \* TRUE: the AsyncRead/AsyncSeek impls are in use, FALSE: Read/Seek
    overflow_checks,    \* the build: TRUE panics on integer overflow (debug), FALSE wraps (release)
    last                \* what the last call did and returned

fileVars == <<file, allocation_table, is_async, overflow_checks, last>>

Clusters == 2 .. LastCluster

\* The logical allocation-table entries (allocation_table/entry.rs:7-13).
Free == [kind |-> "Free", n |-> 0]

Reserved == [kind |-> "Reserved", n |-> 0]

BadSector == [kind |-> "BadSector", n |-> 0]

EndOfFile == [kind |-> "EndOfFile", n |-> 0]

NextClusterNumber(c) == [kind |-> "NextClusterNumber", n |-> c]

AllocationTableEntry ==
    {Free, Reserved, BadSector, EndOfFile} \cup {NextClusterNumber(c) : c \in Clusters}

\* ------------------------------------------------------------ File: helpers

\* A SeekFrom value (embedded_io): Start carries a u64, Current and End an i64.
SeekFrom(from, offset) == [from |-> from, offset |-> offset]

Ok(v) == [status |-> "Ok", value |-> v, error |-> ""]

Err(e, v) == [status |-> "Err", value |-> v, error |-> e]

\* A panic of the running program (integer overflow in a build with overflow checks).
Panic == [status |-> "Panic", value |-> 0, error |-> "overflow"]

\* u64 -> u32 try_into of file.rs:107-109.
TryIntoU32(desired_address) ==
    IF desired_address > U32Max
    THEN Err("SeekPositionBeyondLimits", desired_address)
    ELSE Ok(desired_address)

\* `base as i64 + offset` followed by the i64 -> u64 try_into of file.rs:92-96 and
\* file.rs:99-103. The addition is a plain `+`: it panics when the build checks
\* overflow and wraps otherwise.
AddOffset(base, offset, checks) ==
    LET exact == base + offset
        desired_address == WrapI64(exact)
    IN  IF exact # desired_address /\ checks
        THEN Panic
        ELSE IF desired_address < 0
             THEN Err("SeekPositionImpossible", desired_address)
             ELSE TryIntoU32(desired_address)

\* File::resolve_desired_position.
ResolveDesiredPosition(f, pos, checks) ==
    CASE pos.from = "Start" -> TryIntoU32(pos.offset)
      [] pos.from = "Current" -> AddOffset(f.current_position, pos.offset, checks)
      [] pos.from = "End" -> AddOffset(f.file_size, pos.offset, checks)

\* The loop condition of the chain walk: file.rs:209 (Seek) and file.rs:275 (AsyncSeek).
WalkContinues_PastTheTarget(new_cluster_offset, bytes_per_cluster, async) ==
    new_cluster_offset >= 0

WalkContinues(new_cluster_offset, bytes_per_cluster, async) ==
    IF async
    THEN new_cluster_offset >= bytes_per_cluster
    ELSE new_cluster_offset > bytes_per_cluster

\* WalkStep with a Free entry taken for the end of the chain.
WalkStep_FreeEndsChain(entry) ==
    CASE entry.kind = "NextClusterNumber" -> "follow"
      [] entry.kind \in {"EndOfFile", "Free"} -> "break"
      [] entry.kind \in {"BadSector", "Reserved"} -> "fail"

\* What the walk does with the entry it read: file.rs:214-225 / file.rs:281-292.
WalkStep(entry) ==
    CASE entry.kind = "NextClusterNumber" -> "follow"
      [] entry.kind = "EndOfFile" -> "break"
      [] entry.kind \in {"Free", "BadSector", "Reserved"} -> "fail"

\* The chain walk of File::seek: one AllocationTable::read_entry per iteration.
\* `reads` collects the cluster numbers whose entries were read.
RECURSIVE Walk(_, _, _, _, _, _)
Walk(table, new_cluster_number, new_cluster_offset, bytes_per_cluster, async, reads) ==
    IF ~WalkContinues(new_cluster_offset, bytes_per_cluster, async)
    THEN [failed |-> FALSE, cluster |-> new_cluster_number,
          offset |-> new_cluster_offset, reads |-> reads]
    ELSE LET entry == table[new_cluster_number]
             step == WalkStep(entry)
             seen == Append(reads, new_cluster_number)
         IN  CASE step = "follow" ->
                    Walk(table, entry.n, new_cluster_offset - bytes_per_cluster,
                         bytes_per_cluster, async, seen)
               [] step = "break" ->
                    [failed |-> FALSE, cluster |-> new_cluster_number,
                     offset |-> new_cluster_offset, reads |-> seen]
               [] step = "fail" ->
                    [failed |-> TRUE, cluster |-> new_cluster_number,
                     offset |-> new_cluster_offset, reads |-> seen]

\* The outcome of a call on a File: the result returned, the File afterwards, the
\* clusters whose allocation-table entries were read, and the number of data
\* seek+read pairs issued on the device.
Outcome(result, f, reads, data_reads) ==
    [result |-> result, file |-> f, reads |-> reads, data_reads |-> data_reads]

\* File::seek (file.rs:185-242) and its AsyncSeek twin (file.rs:251-310).
Seek_WalksTheCursor(f, table, pos, async, checks) ==
    LET desired == ResolveDesiredPosition(f, pos, checks)
        desired_position == desired.value
        relative_position_change == desired_position - f.current_position
        inside_offset == f.current_cluster_offset + relative_position_change
        is_inside_current_cluster ==
            inside_offset >= 0 /\ inside_offset < f.bytes_per_cluster
        rewind == relative_position_change < 0
        walk == Walk(table,
                     IF rewind THEN f.first_cluster_number ELSE f.current_cluster_number,
                     IF rewind THEN desired_position ELSE inside_offset,
                     f.bytes_per_cluster, async, <<>>)
    IN  IF desired.status # "Ok"
        THEN Outcome(desired, f, <<>>, 0)
        ELSE IF relative_position_change = 0
        THEN Outcome(Ok(f.current_position), f, <<>>, 0)
        ELSE IF is_inside_current_cluster
        THEN Outcome(Ok(desired_position),
                     [f EXCEPT !.current_cluster_offset = inside_offset,
                               !.current_position = desired_position],
                     <<>>, 0)
        ELSE IF walk.failed
        THEN Outcome(Err("UnexpectedAllocationTableEntryEncountered", 0),
                     [f EXCEPT !.current_cluster_number = walk.cluster],
                     walk.reads, 0)
        ELSE Outcome(Ok(desired_position),
                     [f EXCEPT !.current_cluster_number = walk.cluster,
                               !.current_cluster_offset = Min(walk.offset, f.bytes_per_cluster),
                               !.current_position = desired_position],
                     walk.reads, 0)

Seek(f, table, pos, async, checks) ==
    LET desired == ResolveDesiredPosition(f, pos, checks)
        desired_position == desired.value
        relative_position_change == desired_position - f.current_position
        inside_offset == f.current_cluster_offset + relative_position_change
        is_inside_current_cluster ==
            inside_offset >= 0 /\ inside_offset < f.bytes_per_cluster
        rewind == relative_position_change < 0
        walk == Walk(table,
                     IF rewind THEN f.first_cluster_number ELSE f.current_cluster_number,
                     IF rewind THEN desired_position ELSE inside_offset,
                     f.bytes_per_cluster, async, <<>>)
    IN  IF desired.status # "Ok"
        THEN Outcome(desired, f, <<>>, 0)
        ELSE IF relative_position_change = 0
        THEN Outcome(Ok(f.current_position), f, <<>>, 0)
        ELSE IF is_inside_current_cluster
        THEN Outcome(Ok(desired_position),
                     [f EXCEPT !.current_cluster_offset = inside_offset,
                               !.current_position = desired_position],
                     <<>>, 0)
        ELSE IF walk.failed
        THEN Outcome(Err("UnexpectedAllocationTableEntryEncountered", 0), f, walk.reads, 0)
        ELSE Outcome(Ok(desired_position),
                     [f EXCEPT !.current_cluster_number = walk.cluster,
                               !.current_cluster_offset = Min(walk.offset, f.bytes_per_cluster),
                               !.current_position = desired_position],
                     walk.reads, 0)

\* File::resolve_max_read_size. `file_size - current_position` is a plain u32
\* subtraction: it panics when the build checks overflow and wraps otherwise.
ResolveMaxReadSize(f, target_buffer_length, checks) ==
    LET exact == f.file_size - f.current_position
        remaining == WrapU32(exact)
    IN  IF exact # remaining /\ checks
        THEN Panic
        ELSE Ok(Min(Min(Min(target_buffer_length, U32Max), remaining),
                    f.bytes_per_cluster - f.current_cluster_offset))

\* File::read (file.rs:126-146) and its AsyncRead twin (file.rs:155-176), the
\* device having delivered actual_read_size bytes of the target_read_size asked for.
Read(f, table, target_buffer_length, actual_read_size, async, checks) ==
    LET target == ResolveMaxReadSize(f, target_buffer_length, checks)
        moved == Seek(f, table, SeekFrom("Current", actual_read_size), async, checks)
    IN  IF target.status # "Ok"
        THEN Outcome(target, f, <<>>, 0)
        ELSE IF target.value = 0
        THEN Outcome(Ok(0), f, <<>>, 0)
        ELSE IF moved.result.status # "Ok"
        THEN Outcome(moved.result, moved.file, moved.reads, 1)
        ELSE Outcome(Ok(actual_read_size), moved.file, moved.reads, 1)

\* ------------------------------------------------------- File: state machine

\* Cluster sizes: bytes_per_sector * sectors_per_cluster, a power of two.
BytesPerCluster == {2, 4}

\* The clusters a walk starting at `first` can visit in `table`.
RECURSIVE ChainClusters(_, _, _)
ChainClusters(table, cluster, visited) ==
    IF cluster \in visited
    THEN visited
    ELSE IF table[cluster].kind = "NextClusterNumber"
         THEN ChainClusters(table, table[cluster].n, visited \cup {cluster})
         ELSE visited \cup {cluster}

\* File::new (file.rs:47-70).
NewFile(bytes_per_cluster, first_cluster_number, file_size) ==
    [bytes_per_cluster |-> bytes_per_cluster,
     first_cluster_number |-> first_cluster_number,
     file_size |-> file_size,
     current_position |-> 0,
     current_cluster_number |-> first_cluster_number,
     current_cluster_offset |-> 0]

\* The record of a call: the operation, its argument, the File before it, and
\* what it returned and did.
Call(op, arg, len, before, outcome) ==
    [op |-> op, arg |-> arg, len |-> len, before |-> before,
     result |-> outcome.result, reads |-> outcome.reads,
     data_reads |-> outcome.data_reads]

NoSeek == SeekFrom("None", 0)

\* No call has a result pending.
Idle(f) == Call("idle", NoSeek, 0, f, Outcome(Ok(0), f, <<>>, 0))

\* -------------------------------------------------- directory: entries on disk

VARIABLES
    directory,          \* the 32-byte records of the directory table and of the
                        \* clusters after it, decoded
    entry_iterator,     \* the DirectoryEntryIterator the caller iterates with
    item_last,          \* what the last call on the directory did and returned
    entry_last          \* what the last call on the entry iterator did and returned

dirVars == <<directory, entry_iterator, item_last, entry_last>>

\* A directory table holds at most MaxEntryCount records.
MaxEntryCount == 3

LONG_NAME_CHARACTERS_PER_ENTRY == 13

LONG_NAME_MAX_LENGTH == 255

\* Ucs2Character::null().
NullCharacter == 0

LONG_NAME_PADDING_CHARACTER == 65535

Some(v) == [is_some |-> TRUE, value |-> v]

None == [is_some |-> FALSE, value |-> 0]

\* u8::rotate_right(1).
RotateRight(byte) == (byte \div 2) + (byte % 2) * 128

RECURSIVE ChecksumFrom(_, _, _)
ChecksumFrom(bytes, index, checksum) ==
    IF index > Len(bytes)
    THEN checksum
    ELSE ChecksumFrom(bytes, index + 1, (RotateRight(checksum) + bytes[index]) % 256)

\* ShortFileName::checksum (file_name/short.rs:62-70).
Checksum(bytes) == ChecksumFrom(bytes, 1, 0)

\* The 11 name bytes of "FOO.TXT" and of "BAR.TXT".
FooTxt == <<70, 79, 79, 32, 32, 32, 32, 32, 84, 88, 84>>

BarTxt == <<66, 65, 82, 32, 32, 32, 32, 32, 84, 88, 84>>

CurrentOnly == [tag |-> "Free", free |-> "CurrentOnly"]

AllFollowing == [tag |-> "Free", free |-> "AllFollowing"]

\* A ShortName record (directory_entry/short_name.rs:14-22): its name, whether
\* its attributes hold Subdirectory, and its first cluster number.
ShortNameEntry(name, is_directory, first_cluster_number) ==
    [tag |-> "ShortName", name |-> name, is_directory |-> is_directory,
     first_cluster_number |-> first_cluster_number]

\* The ShortName record of a file without clusters.
ShortNameDirectoryEntry(name) == ShortNameEntry(name, FALSE, 0)

LongNameDirectoryEntry(order_byte, short_name_checksum, ucs2_characters) ==
    [tag |-> "LongName", order_byte |-> order_byte,
     short_name_checksum |-> short_name_checksum,
     ucs2_characters |-> ucs2_characters]

\* A record DirectoryEntry::from_bytes rejects (directory_entry.rs:31-43).
InvalidEntry == [tag |-> "Invalid"]

\* LongNameDirectoryEntry::is_last_entry and ::entry_number (long_name.rs:57-63).
IsLastEntry(entry) == (entry.order_byte \div 64) % 2 > 0

EntryNumber(entry) == entry.order_byte % 64

\* The 13 code units of a LongName record that holds the end of a name: the
\* characters, a null terminator, 0xFFFF padding.
Terminated(characters) ==
    [i \in 1 .. LONG_NAME_CHARACTERS_PER_ENTRY |->
        IF i <= Len(characters) THEN characters[i]
        ELSE IF i = Len(characters) + 1 THEN NullCharacter
        ELSE LONG_NAME_PADDING_CHARACTER]

\* 13 code units without terminator: thirteen times 'x'.
FullStride == [i \in 1 .. LONG_NAME_CHARACTERS_PER_ENTRY |-> 120]

\* "Ab", terminated.
NameAb == Terminated(<<65, 98>>)

\* The terminator first: no characters at all.
NameEmpty == Terminated(<<>>)

\* "A", terminator, then a character that is not padding.
NameCorrupted == [NameAb EXCEPT ![2] = NullCharacter, ![3] = 98]

\* The LongName records the directories are made of: the links of well-formed
\* chains of one and of two entries for either short name, and records that break
\* each rule of DirectoryItemBuilder::add_long_name_entry.
LongNameEntries ==
    {LongNameDirectoryEntry(65, Checksum(FooTxt), NameAb),
     LongNameDirectoryEntry(66, Checksum(FooTxt), NameAb),
     LongNameDirectoryEntry(1, Checksum(FooTxt), FullStride),
     LongNameDirectoryEntry(65, Checksum(BarTxt), NameAb),
     LongNameDirectoryEntry(66, Checksum(BarTxt), NameAb),
     LongNameDirectoryEntry(1, Checksum(BarTxt), FullStride),
     LongNameDirectoryEntry(2, Checksum(FooTxt), FullStride),
     LongNameDirectoryEntry(1, Checksum(FooTxt), NameAb),
     LongNameDirectoryEntry(65, Checksum(FooTxt), NameEmpty),
     LongNameDirectoryEntry(65, Checksum(FooTxt), NameCorrupted),
     LongNameDirectoryEntry(84, Checksum(FooTxt), FullStride)}

DirectoryEntries ==
    {CurrentOnly, AllFollowing, InvalidEntry,
     ShortNameDirectoryEntry(FooTxt), ShortNameDirectoryEntry(BarTxt)}
        \cup LongNameEntries

\* The directory tables of at most MaxEntryCount records.
Directories == UNION {[1 .. n -> DirectoryEntries] : n \in 0 .. MaxEntryCount}

\* ------------------------------------------------ directory: entry iterator

\* DirectoryTableEntryIterator::new (table.rs:37-46).
NewTableIterator(entry_count) ==
    [entry_count |-> entry_count,
     current_entry_index |-> IF entry_count > 0 THEN Some(0) ELSE None]

\* DirectoryTableEntryIterator::advance (table.rs:48-61).
Advance_EndsEarly(iterator) ==
    IF ~iterator.current_entry_index.is_some
    THEN iterator
    ELSE LET next_entry_index == iterator.current_entry_index.value + 1
         IN  [iterator EXCEPT !.current_entry_index =
                 IF next_entry_index + 1 < iterator.entry_count
                 THEN Some(next_entry_index)
                 ELSE None]

Advance(iterator) ==
    IF ~iterator.current_entry_index.is_some
    THEN iterator
    ELSE LET next_entry_index == iterator.current_entry_index.value + 1
         IN  [iterator EXCEPT !.current_entry_index =
                 IF next_entry_index < iterator.entry_count
                 THEN Some(next_entry_index)
                 ELSE None]

\* DirectoryTableEntryIterator::peek (table.rs:76-94) on a device that delivers
\* every record: the outer Option, then the Result of decoding the record.
Peek(iterator, entries) ==
    IF ~iterator.current_entry_index.is_some
    THEN None
    ELSE LET entry == entries[iterator.current_entry_index.value + 1]
         IN  IF entry.tag = "Invalid"
             THEN Some(Err("EntryInvalid", entry))
             ELSE Some(Ok(entry))

\* The slot the iterator stands on; entry_count when it stands past the table.
Slot(iterator) ==
    IF iterator.current_entry_index.is_some
    THEN iterator.current_entry_index.value
    ELSE iterator.entry_count

\* ------------------------------- directory: entry iterator over a cluster chain

\* Width of the word that stands for the u32 current_cluster_offset of the
\* cluster-chain iterator, which counts bytes in steps of DIRECTORY_ENTRY_SIZE.
OffsetBits == 7

OffsetMax == 2 ^ OffsetBits - 1

DIRECTORY_ENTRY_SIZE == 32

\* The cluster sizes of a directory file: one record or two records a cluster.
DirectoryBytesPerCluster == {DIRECTORY_ENTRY_SIZE, 2 * DIRECTORY_ENTRY_SIZE}

\* DirectoryFileEntryIterator::new (file.rs:30-47).
NewFileIterator(data_region_base_address, bytes_per_cluster, start_cluster_number) ==
    [data_region_base_address |-> data_region_base_address,
     bytes_per_cluster |-> bytes_per_cluster,
     current_cluster_number |-> start_cluster_number,
     current_cluster_offset |-> 0]

\* The variant of DirectoryEntryIterator (iterator.rs:21-27) a value is.
IsTableIterator(iterator) == "entry_count" \in DOMAIN iterator

\* DirectoryFileEntryIterator::current_address (file.rs:49-53).
FileCurrentAddress(iterator) ==
    iterator.data_region_base_address
        + ((iterator.current_cluster_number - 2) * iterator.bytes_per_cluster)
        + iterator.current_cluster_offset

\* DirectoryTableEntryIterator::current_address (table.rs:63-67); addresses
\* count from the start of the directory table.
TableCurrentAddress(iterator) ==
    iterator.current_entry_index.value * DIRECTORY_ENTRY_SIZE

\* The decoded record the device holds at a byte address.
RecordAt(entries, address) == entries[(address \div DIRECTORY_ENTRY_SIZE) + 1]

\* What a call on an entry iterator returned and did: status is "None", "Some"
\* (of Ok(entry)), "SomeErr" (of Err(error)), "Ok" (of advanced), "Err" or
\* "Panic"; the iterator after the call; the clusters whose allocation-table
\* entry was read; the addresses directory records were read at.
EntryOutcome(status, entry, advanced, error, iterator, table_reads, record_reads) ==
    [status |-> status, entry |-> entry, advanced |-> advanced, error |-> error,
     iterator |-> iterator, table_reads |-> table_reads,
     record_reads |-> record_reads]

\* DirectoryEntry::from_bytes (directory_entry.rs:31-43) of the record read at
\* an address, as peek returns it.
Decoded(iterator, entries, address) ==
    LET entry == RecordAt(entries, address)
    IN  IF entry.tag = "Invalid"
        THEN EntryOutcome("SomeErr", entry, FALSE, "EntryInvalid", iterator,
                          <<>>, <<address>>)
        ELSE EntryOutcome("Some", entry, FALSE, "", iterator, <<>>, <<address>>)

\* DirectoryTableEntryIterator::peek and peek_async (table.rs:76-94, 117-135).
TablePeek_Consuming(iterator, entries) ==
    IF ~iterator.current_entry_index.is_some
    THEN EntryOutcome("None", InvalidEntry, FALSE, "", iterator, <<>>, <<>>)
    ELSE Decoded(Advance(iterator), entries, TableCurrentAddress(iterator))

TablePeek(iterator, entries) ==
    IF ~iterator.current_entry_index.is_some
    THEN EntryOutcome("None", InvalidEntry, FALSE, "", iterator, <<>>, <<>>)
    ELSE Decoded(iterator, entries, TableCurrentAddress(iterator))

\* DirectoryTableEntryIterator::advance (table.rs:48-61) behind the Ok of
\* DirectoryEntryIterator::advance (iterator.rs:41-46).
TableAdvance(iterator) ==
    LET advanced == Advance(iterator)
    IN  EntryOutcome("Ok", InvalidEntry, advanced.current_entry_index.is_some, "",
                     advanced, <<>>, <<>>)

\* DirectoryFileEntryIterator::peek and peek_async (file.rs:85-108, 144-168).
FilePeek(iterator, entries) ==
    IF iterator.current_cluster_offset >= iterator.bytes_per_cluster
    THEN EntryOutcome("None", InvalidEntry, FALSE, "", iterator, <<>>, <<>>)
    ELSE Decoded(iterator, entries, FileCurrentAddress(iterator))

\* DirectoryFileEntryIterator::try_advance_cluster (file.rs:59-77), after the
\* allocation-table entry of the current cluster was read.
TryAdvanceCluster_EndOfFileContinues(iterator, allocation_table_entry) ==
    LET read == <<iterator.current_cluster_number>>
    IN  IF allocation_table_entry.kind = "NextClusterNumber"
        THEN EntryOutcome("Ok", InvalidEntry, TRUE, "",
                          [iterator EXCEPT
                              !.current_cluster_number = allocation_table_entry.n,
                              !.current_cluster_offset = 0],
                          read, <<>>)
        ELSE IF allocation_table_entry.kind = "EndOfFile"
        THEN EntryOutcome("Ok", InvalidEntry, TRUE, "", iterator, read, <<>>)
        ELSE EntryOutcome("Err", InvalidEntry, FALSE,
                          "AllocationTableEntryTypeUnexpected", iterator, read, <<>>)

TryAdvanceCluster(iterator, allocation_table_entry) ==
    LET read == <<iterator.current_cluster_number>>
    IN  IF allocation_table_entry.kind = "NextClusterNumber"
        THEN EntryOutcome("Ok", InvalidEntry, TRUE, "",
                          [iterator EXCEPT
                              !.current_cluster_number = allocation_table_entry.n,
                              !.current_cluster_offset = 0],
                          read, <<>>)
        ELSE IF allocation_table_entry.kind = "EndOfFile"
        THEN EntryOutcome("Ok", InvalidEntry, FALSE, "", iterator, read, <<>>)
        ELSE EntryOutcome("Err", InvalidEntry, FALSE,
                          "AllocationTableEntryTypeUnexpected", iterator, read, <<>>)

\* DirectoryFileEntryIterator::advance and advance_async (file.rs:110-126,
\* 170-188), advance_offset (file.rs:55-57) included: the addition panics in a
\* build with overflow checks and wraps in one without.
FileAdvance(iterator, table, checks) ==
    LET sum == iterator.current_cluster_offset + DIRECTORY_ENTRY_SIZE
        offset == [iterator EXCEPT
                      !.current_cluster_offset = sum % (OffsetMax + 1)]
    IN  IF sum > OffsetMax /\ checks
        THEN EntryOutcome("Panic", InvalidEntry, FALSE, "overflow", iterator,
                          <<>>, <<>>)
        ELSE IF offset.current_cluster_offset < offset.bytes_per_cluster
        THEN EntryOutcome("Ok", InvalidEntry, TRUE, "", offset, <<>>, <<>>)
        ELSE TryAdvanceCluster(offset, table[offset.current_cluster_number])

\* DirectoryEntryIterator::peek and peek_async (iterator.rs:34-39, 61-66).
EntryPeek(iterator, entries) ==
    IF IsTableIterator(iterator)
    THEN TablePeek(iterator, entries)
    ELSE FilePeek(iterator, entries)

\* DirectoryEntryIterator::advance and advance_async (iterator.rs:41-46, 68-73).
EntryAdvance(iterator, table, checks) ==
    IF IsTableIterator(iterator)
    THEN TableAdvance(iterator)
    ELSE FileAdvance(iterator, table, checks)

\* DirectoryEntryIterator::next and next_async (iterator.rs:48-53, 75-80) over
\* the next of either strategy (table.rs:96-104, file.rs:128-136): the peeked
\* result, after an advance unless it is None; an advance that fails replaces it.
EntryNext(iterator, entries, table, checks) ==
    LET result == EntryPeek(iterator, entries)
        advance == EntryAdvance(iterator, table, checks)
    IN  IF result.status = "None"
        THEN result
        ELSE IF advance.status = "Panic"
        THEN [advance EXCEPT !.record_reads = result.record_reads]
        ELSE IF advance.status = "Err"
        THEN [advance EXCEPT !.status = "SomeErr",
                             !.record_reads = result.record_reads]
        ELSE [result EXCEPT !.iterator = advance.iterator,
                            !.table_reads = advance.table_reads]

\* ------------------------------------------------- directory: item builder

\* LongNameState::new (builder.rs:27-32).
LongNameState(entry_count, short_name_checksum) ==
    [entry_count |-> entry_count, short_name_checksum |-> short_name_checksum]

\* DirectoryItemBuilder::new (builder.rs:36-43).
NewBuilder ==
    [current_entry_index |-> 0,
     long_name |-> [i \in 0 .. (LONG_NAME_MAX_LENGTH - 1) |-> NullCharacter],
     long_name_state |-> None]

\* The loop over the 13 code units of an entry (builder.rs:75-103): the name
\* buffer after it, or the error that ends it.
RECURSIVE CopyCharacters(_, _, _, _, _)
CopyCharacters(current_entry_index, entry, long_name, character_index, null_encountered) ==
    IF character_index = LONG_NAME_CHARACTERS_PER_ENTRY
    THEN Ok(long_name)
    ELSE LET character == entry.ucs2_characters[character_index + 1]
             long_name_offset == (EntryNumber(entry) - 1) * LONG_NAME_CHARACTERS_PER_ENTRY
             long_name_index == long_name_offset + character_index
         IN  IF character = NullCharacter /\ current_entry_index # 0
             THEN Err("LongNameCorrupted", long_name)
             ELSE IF character = NullCharacter /\ character_index = 0
             THEN Err("LongNameEmpty", long_name)
             ELSE IF character # NullCharacter /\ null_encountered
             THEN IF character # LONG_NAME_PADDING_CHARACTER
                  THEN Err("LongNameCorrupted", long_name)
                  ELSE CopyCharacters(current_entry_index, entry, long_name,
                                      character_index + 1, null_encountered)
             ELSE IF ~(long_name_index < LONG_NAME_MAX_LENGTH)
             THEN Err("LongNameTooLong", long_name)
             ELSE CopyCharacters(current_entry_index, entry,
                                 [long_name EXCEPT ![long_name_index] = character],
                                 character_index + 1,
                                 null_encountered \/ character = NullCharacter)

\* DirectoryItemBuilder::build with the comparison of the two checksums left out.
ChecksumMatches_Unchecked(entry, long_name_state) == TRUE

\* The comparison of builder.rs:120-123.
ChecksumMatches(entry, long_name_state) ==
    Checksum(entry.name) = long_name_state.short_name_checksum

\* DirectoryItemBuilder::add_long_name_entry with the comparison of the entry
\* number with entry_count - current_entry_index left out.
AddLongNameEntry_AnyEntryNumber(builder, entry) ==
    IF builder.current_entry_index = 0 /\ ~IsLastEntry(entry)
    THEN Err("LongNameFirstEntryInvalid", builder)
    ELSE IF builder.current_entry_index # 0 /\ IsLastEntry(entry)
    THEN Err("LongNameOrphaned", builder)
    ELSE LET long_name_state ==
                 IF builder.long_name_state.is_some
                 THEN builder.long_name_state.value
                 ELSE LongNameState(EntryNumber(entry), entry.short_name_checksum)
             copied == CopyCharacters(builder.current_entry_index, entry,
                                      builder.long_name, 0, FALSE)
         IN  IF entry.short_name_checksum # long_name_state.short_name_checksum
             THEN Err("LongNameShortNameChecksumInconsistent", builder)
             ELSE IF copied.status = "Err"
             THEN Err(copied.error, builder)
             ELSE Ok([current_entry_index |-> builder.current_entry_index + 1,
                      long_name |-> copied.value,
                      long_name_state |-> Some(long_name_state)])

\* DirectoryItemBuilder::add_long_name_entry (builder.rs:45-108).
AddLongNameEntry(builder, entry) ==
    IF builder.current_entry_index = 0 /\ ~IsLastEntry(entry)
    THEN Err("LongNameFirstEntryInvalid", builder)
    ELSE IF builder.current_entry_index # 0 /\ IsLastEntry(entry)
    THEN Err("LongNameOrphaned", builder)
    ELSE LET long_name_state ==
                 IF builder.long_name_state.is_some
                 THEN builder.long_name_state.value
                 ELSE LongNameState(EntryNumber(entry), entry.short_name_checksum)
             copied == CopyCharacters(builder.current_entry_index, entry,
                                      builder.long_name, 0, FALSE)
         IN  IF EntryNumber(entry) # long_name_state.entry_count - builder.current_entry_index
             THEN Err("LongNameEntryNumberWrong", builder)
             ELSE IF entry.short_name_checksum # long_name_state.short_name_checksum
             THEN Err("LongNameShortNameChecksumInconsistent", builder)
             ELSE IF copied.status = "Err"
             THEN Err(copied.error, builder)
             ELSE Ok([current_entry_index |-> builder.current_entry_index + 1,
                      long_name |-> copied.value,
                      long_name_state |-> Some(long_name_state)])

\* The conversion of the name buffer to Option<LongFileName> (builder.rs:126):
\* None for a buffer that holds no name (LongFileName::is_empty).
LongNameInto(long_name) ==
    IF long_name[0] = NullCharacter THEN None ELSE Some(long_name)

\* DirectoryItem::new (directory_item.rs:24-32).
DirectoryItem(short_directory_entry, long_name) ==
    [short_directory_entry |-> short_directory_entry, long_name |-> long_name]

\* DirectoryItemBuilder::build with the name buffer always turned into Some.
Build_AlwaysLongName(builder, entry) ==
    LET item == DirectoryItem(entry, Some(builder.long_name))
    IN  IF ~builder.long_name_state.is_some
        THEN Ok(item)
        ELSE IF builder.current_entry_index # builder.long_name_state.value.entry_count
        THEN Err("LongNameOrphaned", item)
        ELSE IF ~ChecksumMatches(entry, builder.long_name_state.value)
        THEN Err("ShortNameChecksumMismatch", item)
        ELSE Ok(item)

\* DirectoryItemBuilder::build (builder.rs:110-127).
Build(builder, entry) ==
    LET item == DirectoryItem(entry, LongNameInto(builder.long_name))
    IN  IF ~builder.long_name_state.is_some
        THEN Ok(item)
        ELSE IF builder.current_entry_index # builder.long_name_state.value.entry_count
        THEN Err("LongNameOrphaned", item)
        ELSE IF ~ChecksumMatches(entry, builder.long_name_state.value)
        THEN Err("ShortNameChecksumMismatch", item)
        ELSE Ok(item)

\* ------------------------------------------------- directory: item iterator

\* DirectoryItemIterator::should_skip_advancing_iterator (iterator.rs:42-44).
ShouldSkipAdvancingIterator(directory_item_error) ==
    directory_item_error = "LongNameOrphaned"

NoItem == DirectoryItem(InvalidEntry, None)

\* What a call of next leaves behind: the Option<Result<..>> it returns (status
\* "None", "Ok" or "Err"), the entry iterator after it, the slots whose LongName
\* entries the builder accepted, and the slot the call was looking at when it
\* returned.
Returned(status, item, error, iterator, chain, slot) ==
    [status |-> status, item |-> item, error |-> error,
     entry_iterator |-> iterator, chain |-> chain, slot |-> slot]

\* The slot of the device an iterator of either strategy stands on.
SlotOf(iterator) ==
    IF IsTableIterator(iterator)
    THEN Slot(iterator)
    ELSE FileCurrentAddress(iterator) \div DIRECTORY_ENTRY_SIZE

\* The loop of DirectoryItemIterator::next (iterator.rs:57-112) and of next_async
\* (iterator.rs:128-179). A decoding error of peek is returned after an advance
\* by next (iterator.rs:61-64) and without one by next_async (iterator.rs:130).
\* An advance that fails ends the call with its error (utils.rs:11-18); an
\* advance that panics ends the program.
RECURSIVE NextLoop(_, _, _, _, _, _, _, _)
NextLoop(iterator, entries, table, checks, async, is_first_entry, builder, chain) ==
    LET peeked == EntryPeek(iterator, entries)
        advance == EntryAdvance(iterator, table, checks)
        slot == SlotOf(iterator)
        Advanced(then) ==
            IF advance.status = "Ok"
            THEN then
            ELSE Returned(IF advance.status = "Panic" THEN "Panic" ELSE "Err",
                          NoItem, advance.error, advance.iterator, chain, slot)
    IN  IF peeked.status = "None"
        THEN IF ~is_first_entry
             THEN Returned("Err", NoItem, "LongNameOrphaned", iterator, chain, slot)
             ELSE Returned("None", NoItem, "", iterator, chain, slot)
        ELSE IF peeked.status = "SomeErr"
        THEN IF async
             THEN Returned("Err", NoItem, peeked.error, iterator, chain, slot)
             ELSE Advanced(Returned("Err", NoItem, peeked.error, advance.iterator,
                                    chain, slot))
        ELSE LET entry == peeked.entry
             IN  CASE entry.tag = "Free" ->
                        Advanced(
                            IF ~is_first_entry
                            THEN Returned("Err", NoItem, "LongNameOrphaned",
                                          advance.iterator, chain, slot)
                            ELSE IF entry.free = "CurrentOnly"
                            THEN NextLoop(advance.iterator, entries, table, checks, async,
                                          is_first_entry, builder, chain)
                            ELSE Returned("None", NoItem, "", advance.iterator, chain,
                                          slot))
                   [] entry.tag = "LongName" ->
                        LET added == AddLongNameEntry(builder, entry)
                        IN  IF added.status = "Ok"
                            THEN Advanced(NextLoop(advance.iterator, entries, table, checks,
                                                   async, FALSE, added.value,
                                                   Append(chain, slot)))
                            ELSE IF ShouldSkipAdvancingIterator(added.error)
                            THEN Returned("Err", NoItem, added.error, iterator, chain, slot)
                            ELSE Advanced(Returned("Err", NoItem, added.error,
                                                   advance.iterator, chain, slot))
                   [] entry.tag = "ShortName" ->
                        LET built == Build(builder, entry)
                        IN  IF built.status = "Err"
                            THEN Returned("Err", NoItem, built.error, iterator, chain, slot)
                            ELSE Advanced(Returned("Ok", built.value, "", advance.iterator,
                                                   chain, slot))

\* DirectoryItemIterator::next / next_async over an entry iterator of either
\* strategy.
NextItemOn(iterator, entries, table, checks, async) ==
    NextLoop(iterator, entries, table, checks, async, TRUE, NewBuilder, <<>>)

\* DirectoryItemIterator::next / next_async over a directory table, whose
\* advance reads no allocation table and adds nothing that can overflow.
NextItem(iterator, entries, async) ==
    NextItemOn(iterator, entries, <<>>, FALSE, async)

\* ---------------------------------------------------- directory: path lookup

\* The index of the last '.' of a &str, 0 when it holds none (str::rsplit_once).
RECURSIVE LastDot(_, _)
LastDot(value, index) ==
    IF index = 0
    THEN 0
    ELSE IF value[index] = 46 THEN index ELSE LastDot(value, index - 1)

\* What ShortFileName::is_valid_character and ::is_valid_encoded_character
\* reject (file_name/short.rs:90-96).
ShortNameForbidden ==
    (0 .. 31) \cup {34} \cup (42 .. 44) \cup {46, 47} \cup (58 .. 63)
        \cup (91 .. 93) \cup {124}

\* AsciiOnlyEncoder::uppercase (encoding/ascii_only_encoder.rs:14-16).
Uppercase(character) ==
    IF character \in 97 .. 122 THEN character - 32 ELSE character

\* ShortFileName::encode_character with the AsciiOnlyEncoder
\* (file_name/short.rs:72-88): the byte, or -1 for an error.
EncodeCharacter(character) ==
    IF character \in ShortNameForbidden \/ Uppercase(character) > 127
    THEN 0 - 1
    ELSE Uppercase(character)

\* ShortFileName::from_str (file_name/short.rs:16-56).
ShortFileNameFromStr(value) ==
    LET dot == LastDot(value, Len(value))
        name == IF dot = 0 THEN value ELSE SubSeq(value, 1, dot - 1)
        extension == IF dot = 0 THEN <<>> ELSE SubSeq(value, dot + 1, Len(value))
        encoded_name == [i \in 1 .. Len(name) |-> EncodeCharacter(name[i])]
        encoded_extension == [i \in 1 .. Len(extension) |-> EncodeCharacter(extension[i])]
    IN  IF \/ Len(value) = 0
           \/ Len(name) = 0
           \/ Len(name) > 8
           \/ Len(extension) > 3
           \/ \E i \in 1 .. Len(name) : encoded_name[i] < 0
           \/ \E i \in 1 .. Len(extension) : encoded_extension[i] < 0
           \/ encoded_name[1] = 32
        THEN Err("ShortFileNameError", <<>>)
        ELSE Ok([i \in 1 .. 11 |->
                    IF i <= Len(name)
                    THEN IF i = 1 /\ encoded_name[i] = 229 THEN 5 ELSE encoded_name[i]
                    ELSE IF i > 8 /\ i - 8 <= Len(extension)
                    THEN encoded_extension[i - 8]
                    ELSE 32])

\* What LongFileName::is_valid_character rejects (file_name/long.rs:41-46).
LongNameForbidden ==
    (0 .. 31) \cup {34, 42, 47, 58, 60, 62, 63, 92, 124, 65535}

\* LongFileName::from_str (file_name/long.rs:17-35).
LongFileNameFromStr(name) ==
    IF \/ Len(name) = 0
       \/ Len(name) > LONG_NAME_MAX_LENGTH
       \/ \E i \in 1 .. Len(name) : name[i] \in LongNameForbidden
    THEN Err("LongFileNameError", <<>>)
    ELSE Ok([i \in 0 .. (LONG_NAME_MAX_LENGTH - 1) |->
                IF i < Len(name) THEN name[i + 1] ELSE NullCharacter])

\* fold_character without the unicode-case-folding feature
\* (encoding/ucs2_character.rs:62-67).
FoldCharacter(character) ==
    IF character \in 65 .. 90 THEN character + 32 ELSE character

\* PartialEq for LongFileName (file_name/long.rs:49-73).
RECURSIVE LongFileNameEq(_, _, _)
LongFileNameEq(left, right, index) ==
    IF index = LONG_NAME_MAX_LENGTH
    THEN TRUE
    ELSE IF FoldCharacter(left[index]) # FoldCharacter(right[index])
    THEN FALSE
    ELSE IF left[index] = NullCharacter
    THEN TRUE
    ELSE LongFileNameEq(left, right, index + 1)

\* DirectoryItem::is_match (directory_item.rs:50-68).
IsMatch(item, file_name) ==
    LET input_long_name == LongFileNameFromStr(file_name)
        short_name == ShortFileNameFromStr(file_name)
    IN  \/ /\ item.long_name.is_some
           /\ input_long_name.status = "Ok"
           /\ LongFileNameEq(item.long_name.value, input_long_name.value, 0)
        \/ /\ short_name.status = "Ok"
           /\ item.short_directory_entry.name = short_name.value

\* What find_item leaves behind: the Option it returns (status "Some" or "None",
\* "Diverges" when it never returns), the slot of the ShortName entry of the item
\* found, and the errors handed to on_invalid_directory_entry.
Found(status, item, slot, callbacks) ==
    [status |-> status, item |-> item, slot |-> slot, callbacks |-> callbacks]

\* str::split("/") (file_system.rs:175, 257): the parts between the '/'s, empty
\* ones included.
RECURSIVE SplitFrom(_, _, _)
SplitFrom(value, index, part) ==
    IF index > Len(value)
    THEN <<part>>
    ELSE IF value[index] = 47
    THEN <<part>> \o SplitFrom(value, index + 1, <<>>)
    ELSE SplitFrom(value, index + 1, Append(part, value[index]))

Split(value) == SplitFrom(value, 1, <<>>)

\* What the FileSystem knows of the volume: the records on the device from the
\* directory table on, the allocation table, the number of records of the root
\* directory table, the address of the data region, the cluster size, and
\* whether the build checks overflow.
Volume(entries, table, entry_count, base_address, bytes_per_cluster, checks) ==
    [entries |-> entries, table |-> table,
     directory_table_entry_count |-> entry_count,
     data_region_base_address |-> base_address,
     bytes_per_cluster |-> bytes_per_cluster, checks |-> checks]

\* FileSystem::root_directory (file_system.rs:55-76) for a volume with a
\* directory table, and the entries() of it (directory.rs:32-37).
RootDirectory(volume) == NewTableIterator(volume.directory_table_entry_count)

\* FileSystem::directory_for (file_system.rs:78-90) of an item that is a
\* directory, and the entries() of it.
DirectoryFor(volume, item) ==
    NewFileIterator(volume.data_region_base_address, volume.bytes_per_cluster,
                    item.short_directory_entry.first_cluster_number)

\* The name find_item matches the items of a directory against
\* (file_system.rs:190): the part of the path that belongs to the directory.
\* find_item_async matches them against the whole path (file_system.rs:272).
MatchedName(file_path, parts, index, async) ==
    IF async THEN file_path ELSE parts[index]

\* The loops of FileSystem::find_item (file_system.rs:178-200) and of
\* find_item_async (file_system.rs:260-282). next is a function of the entry
\* iterator and the volume: when the inner loop comes back to an iterator it has
\* called next on before in the same directory, it runs forever.
RECURSIVE FindLoop(_, _, _, _, _, _, _, _)
FindLoop(iterator, volume, file_path, parts, index, async, callbacks, seen) ==
    LET returned == NextItemOn(iterator, volume.entries, volume.table,
                               volume.checks, async)
    IN  IF iterator \in seen
        THEN Found("Diverges", NoItem, 0, callbacks)
        ELSE IF returned.status = "None"
        THEN Found("None", NoItem, 0, callbacks)
        ELSE IF returned.status = "Panic"
        THEN Found("Panic", NoItem, 0, callbacks)
        ELSE IF returned.status = "Err"
        THEN FindLoop(returned.entry_iterator, volume, file_path, parts, index, async,
                      Append(callbacks, returned.error), seen \cup {iterator})
        ELSE IF ~IsMatch(returned.item, MatchedName(file_path, parts, index, async))
        THEN FindLoop(returned.entry_iterator, volume, file_path, parts, index, async,
                      callbacks, seen \cup {iterator})
        ELSE IF index = Len(parts)
        THEN Found("Some", returned.item, returned.slot, callbacks)
        ELSE IF ~returned.item.short_directory_entry.is_directory
        THEN Found("None", NoItem, 0, callbacks)
        ELSE FindLoop(DirectoryFor(volume, returned.item), volume, file_path, parts,
                      index + 1, async, callbacks, {})

\* FileSystem::find_item / find_item_async (file_system.rs:173-201, 255-283).
FindItemOn(volume, file_path, async) ==
    FindLoop(RootDirectory(volume), volume, file_path, Split(file_path), 1, async,
             <<>>, {})

\* find_item / find_item_async on a volume that is a directory table and nothing
\* else.
FindItem(entries, file_path, async) ==
    FindItemOn(Volume(entries, <<>>, Len(entries), Len(entries) * DIRECTORY_ENTRY_SIZE,
                      DIRECTORY_ENTRY_SIZE, FALSE),
               file_path, async)

\* FileSystem::open / open_async (file_system.rs:169-171, 251-253): file_for
\* (file_system.rs:92-105) makes a File of the item found unless it is a
\* directory.
Open(volume, file_path, async) ==
    LET found == FindItemOn(volume, file_path, async)
    IN  IF found.status = "Some" /\ found.item.short_directory_entry.is_directory
        THEN Found("None", NoItem, found.slot, found.callbacks)
        ELSE found

\* "foo.txt", "bar.txt" and "ab".
Paths ==
    {<<102, 111, 111, 46, 116, 120, 116>>, <<98, 97, 114, 46, 116, 120, 116>>,
     <<97, 98>>}

\* ---------------------------------------------------- device: single access

VARIABLES
    stream,             \* the RefCell<S> of a SingleAccessDevice and the stream in it
    tasks               \* the operation each cooperative task has in progress

devVars == <<stream, tasks>>

\* The tasks that share the device are numbered 1 .. MaxTasks.
MaxTasks == 2

Tasks == 1 .. MaxTasks

\* The device holds a record for every task's File or iterator at the address
\* of the task's number, and the allocation table at address 0.
TableAddress == 0

Addresses == 0 .. MaxTasks

\* The bytes the stream delivers at an address; they never change.
ContentAt(address) == 100 + address

\* SingleAccessDevice::new (single_access.rs:20-24): nothing borrowed; the
\* stream stands where task `set_by` (0: nobody) left it.
NewStream == [borrowed |-> FALSE, position |-> 0, set_by |-> 0]

\* SyncDevice::with_stream and AsyncDevice::with_stream up to the call of the
\* closure (single_access.rs:48-55, 74-81): try_borrow_mut fails when the
\* RefCell is borrowed, and the error becomes StreamInUse (single_access.rs:
\* 142-149).
WithStream_Unchecked(s) ==
    [entered |-> TRUE, stream |-> [s EXCEPT !.borrowed = TRUE]]

WithStream(s) ==
    IF s.borrowed
    THEN [entered |-> FALSE, stream |-> s]
    ELSE [entered |-> TRUE, stream |-> [s EXCEPT !.borrowed = TRUE]]

\* The RefMut is dropped at the end of with_stream and of flush.
Released(s) == [s EXCEPT !.borrowed = FALSE]

\* stream.seek(SeekFrom::Start(address)) inside a scope (file.rs:136, 166;
\* iterator/file.rs:97, 156; allocation_table.rs:39).
SeekTo_Skipped(s, task, address) == s

SeekTo(s, task, address) == [s EXCEPT !.position = address, !.set_by = task]

\* stream.read inside a scope: the stream moves on by what it delivered.
ReadOn(s, task) ==
    [s EXCEPT !.position = (s.position + 1) % (MaxTasks + 1), !.set_by = task]

\* The scopes of an operation and the addresses each scope seeks to and reads
\* at, for the instance of task `task`:
\* peek of an entry iterator (iterator/file.rs:85-108, 144-168): one record;
PeekPlan(task) == <<<<task>>>>

\* File::read (file.rs:126-146, 155-176): the data in one scope, then the seek
\* that moves the cursor, reading one allocation-table entry in a scope of its own;
ReadPlan(task) == <<<<task>>, <<TableAddress>>>>

\* advance of the cluster-chain iterator (iterator/file.rs:110-126, 170-188):
\* one allocation-table entry;
AdvancePlan(task) == <<<<TableAddress>>>>

\* flush (file.rs:324-326, 338-340): no seek and no read.
FlushPlan == <<>>

Operations == {"peek", "read", "advance", "flush"}

PlanOf(op, task) ==
    CASE op = "peek" -> PeekPlan(task)
      [] op = "read" -> ReadPlan(task)
      [] op = "advance" -> AdvancePlan(task)
      [] OTHER -> FlushPlan

RECURSIVE Flatten(_)
Flatten(plan) == IF plan = <<>> THEN <<>> ELSE Head(plan) \o Flatten(Tail(plan))

\* What an operation reads when it runs alone.
AloneResult(op, task) ==
    LET reads == Flatten(PlanOf(op, task))
    IN  [i \in 1 .. Len(reads) |-> ContentAt(reads[i])]

\* A task: where it is in its operation (pc is "idle", "scope" inside a
\* with_stream closure, "flushing" inside flush, "done" with a result to take),
\* the scope and the step of the scope it is at, whether it has sought for the
\* read to come, what it has read, what the operation returned, whether a
\* closure of it ran, whether another scope was active when it asked for one,
\* and whether it read where another task had put the stream.
Task(pc, op, scope, step, sought, got, result, closure_ran, contended, foreign) ==
    [pc |-> pc, op |-> op, scope |-> scope, step |-> step, sought |-> sought,
     got |-> got, result |-> result, closure_ran |-> closure_ran,
     contended |-> contended, foreign |-> foreign]

IdleTask == Task("idle", "none", 0, 0, FALSE, <<>>, "", FALSE, FALSE, FALSE)

InScope(task) == tasks[task].pc \in {"scope", "flushing"}

\* No device is shared.
NoDevice ==
    /\ stream = NewStream
    /\ tasks = [t \in Tasks |-> IdleTask]

\* ------------------------------------------------------------- boot sector

\* The value a function of the crate is applied to, and the call that applied
\* it: the functions below keep no state of their own.
VARIABLES input, output

fnVars == <<input, output>>

\* No function has been applied.
NotApplied == [op |-> "idle"]

NoFunction ==
    /\ input = <<>>
    /\ output = NotApplied

\* u32 values are held exactly up to 2^31 - 1; U32Top also stands for every
\* value above it. The sector counts of the boot sectors below keep sums,
\* products and table capacities under it, and only the difference that gives
\* the data sector count can leave the range.
U32Top == 2147483647

\* AllocationTableKind::new (allocation_table/kind.rs:10-17).
AllocationTableKindNew_Fat16Late(data_cluster_count) ==
    IF data_cluster_count < 4086 THEN "Fat12"
    ELSE IF data_cluster_count < 65525 THEN "Fat16"
    ELSE "Fat32"

AllocationTableKindNew(data_cluster_count) ==
    IF data_cluster_count < 4085 THEN "Fat12"
    ELSE IF data_cluster_count < 65525 THEN "Fat16"
    ELSE "Fat32"

\* AllocationTableKind::bad_sector_value, ::end_of_chain_value and ::entry_mask
\* (kind.rs:19-43): 0x0FF7, 0xFFF7, 0x0FFF_0FF7; 0x0FF8, 0xFFF8, 0x0FFF_FFF8;
\* 12, 16 and 28 low bits.
BadSectorValue(kind) ==
    CASE kind = "Fat12" -> 4087
      [] kind = "Fat16" -> 65527
      [] kind = "Fat32" -> 268374007

EndOfChainValue(kind) ==
    CASE kind = "Fat12" -> 4088
      [] kind = "Fat16" -> 65528
      [] kind = "Fat32" -> 268435448

EntryBits(kind) ==
    CASE kind = "Fat12" -> 12
      [] kind = "Fat16" -> 16
      [] kind = "Fat32" -> 28

EntryMask(kind) == 2 ^ EntryBits(kind) - 1

AllocationTableKinds == {"Fat12", "Fat16", "Fat32"}

\* The fields of the first sector that FileSystem::new and
\* BiosParameterBlock::from_boot_sector read, each with the value its bytes
\* hold: the little-endian u16 at offsets 11, 14, 17, 19, 22, 40, 42, 48, the u32
\* at 32, 36, 44, the bytes at 13, 16, 21, and the two signature bytes at 510.
BootSectorFields ==
    [bytes_per_sector : {512, 500},
     sectors_per_cluster : {1, 8, 3},
     reserved_sector_count : {0, 1},
     allocation_table_count : {0, 2},
     root_directory_entry_count : {0, 16},
     total_sector_count_16bit : {0, 1, 504, 20000},
     media_type : {248, 0},
     sectors_per_allocation_table_16bit : {0, 1, 128},
     total_sector_count_32bit : {0, 600000},
     sectors_per_allocation_table_32bit : {0, 1024},
     ext_flags : {0, 129},
     filesystem_version : {0, 1},
     root_directory_file_cluster_number : {1, 2},
     fs_info_sector_index : {0, 1},
     signature : {<<85, 170>>}]

\* The BiosParameterBlock from_boot_sector makes of a boot sector with `count`
\* data clusters (bios_parameter_block.rs:10-25, 168-184), and the one that
\* stands where none was made.
BiosParameterBlock(kind, bytes, index, mirroring, root_cluster, fs_info, count) ==
    [allocation_table_kind |-> kind,
     active_allocation_table_index |-> index,
     allocation_table_mirroring_enabled |-> mirroring,
     bytes_per_sector |-> bytes.bytes_per_sector,
     sectors_per_cluster |-> bytes.sectors_per_cluster,
     reserved_sector_count |-> bytes.reserved_sector_count,
     fs_info_sector_index |-> fs_info,
     allocation_table_count |-> bytes.allocation_table_count,
     root_directory_entry_count |-> bytes.root_directory_entry_count,
     root_directory_file_cluster_number |-> root_cluster,
     last_cluster_number |-> count + 1,
     sectors_per_allocation_table |->
         IF bytes.sectors_per_allocation_table_16bit > 0
         THEN bytes.sectors_per_allocation_table_16bit
         ELSE bytes.sectors_per_allocation_table_32bit]

NoBiosParameterBlock == [allocation_table_kind |-> "none"]

Parsed(status, error, value) == [status |-> status, error |-> error, value |-> value]

ParsedErr(error) == Parsed("Err", error, NoBiosParameterBlock)

\* u32::div_ceil.
DivCeil(a, b) == (a + b - 1) \div b

\* (2^32 - deficit) / sectors_per_cluster, the data cluster count of a build
\* without overflow checks when the data sector count wraps below zero.
WrappedQuotient(deficit, sectors_per_cluster) ==
    IF sectors_per_cluster = 1
    THEN U32Top
    ELSE (U32Top \div (sectors_per_cluster \div 2)) + 1
            - DivCeil(deficit, sectors_per_cluster)

\* The number of entries the allocation table holds, as from_boot_sector
\* computes it (bios_parameter_block.rs:156-161).
AllocationTableEntryCount(kind, allocation_table_bytes) ==
    CASE kind = "Fat12" -> (allocation_table_bytes * 3) \div 2
      [] kind = "Fat16" -> allocation_table_bytes \div 2
      [] kind = "Fat32" -> allocation_table_bytes \div 4

\* The second half of from_boot_sector (bios_parameter_block.rs:94-184): the
\* checks that depend on the kind, and the capacity of the allocation table.
FromDataClusterCount(bytes, sectors_per_allocation_table, data_cluster_count) ==
    LET kind == AllocationTableKindNew(data_cluster_count)
        entry_count ==
            AllocationTableEntryCount(kind, sectors_per_allocation_table
                                               * bytes.bytes_per_sector)
        fits == entry_count - 2 >= data_cluster_count
    IN  IF kind = "Fat32"
        THEN IF bytes.root_directory_entry_count # 0
             THEN ParsedErr("RootDirectoryEntryCountInvalid")
             ELSE IF bytes.total_sector_count_16bit # 0
             THEN ParsedErr("TotalSectorCount16BitInvalid")
             ELSE IF bytes.sectors_per_allocation_table_16bit # 0
             THEN ParsedErr("SectorsPerAllocationTable16BitInvalid")
             ELSE IF bytes.filesystem_version # 0
             THEN ParsedErr("FilesystemVersionUnsupported")
             ELSE IF bytes.root_directory_file_cluster_number < 2
             THEN ParsedErr("RootDirectoryFileClusterNumberInvalid")
             ELSE IF bytes.fs_info_sector_index < 1
             THEN ParsedErr("FsInfoSectorNumberInvalid")
             ELSE IF ~fits
             THEN ParsedErr("AllocationTableTooSmall")
             ELSE Parsed("Ok", "",
                         BiosParameterBlock(kind, bytes, bytes.ext_flags % 8,
                                            (bytes.ext_flags \div 128) % 2 > 0,
                                            Some(bytes.root_directory_file_cluster_number),
                                            Some(bytes.fs_info_sector_index),
                                            data_cluster_count))
        ELSE IF bytes.sectors_per_allocation_table_16bit = 0
             THEN ParsedErr("SectorsPerAllocationTable16BitInvalid")
             ELSE IF bytes.root_directory_entry_count = 0
             THEN ParsedErr("RootDirectoryEntryCountInvalid")
             ELSE IF ~fits
             THEN ParsedErr("AllocationTableTooSmall")
             ELSE Parsed("Ok", "",
                         BiosParameterBlock(kind, bytes, 0, TRUE, None, None,
                                            data_cluster_count))

\* The middle of from_boot_sector (bios_parameter_block.rs:83-92): the data
\* cluster count. The subtraction panics in a build that checks overflow and
\* wraps in one that does not.
FromSectorCounts(bytes, total_sector_count, sectors_per_allocation_table, checks) ==
    LET root_directory_sectors ==
            DivCeil(bytes.root_directory_entry_count * DIRECTORY_ENTRY_SIZE,
                    bytes.bytes_per_sector)
        used == bytes.reserved_sector_count
                   + bytes.allocation_table_count * sectors_per_allocation_table
                   + root_directory_sectors
    IN  IF total_sector_count >= used
        THEN FromDataClusterCount(bytes, sectors_per_allocation_table,
                                  (total_sector_count - used)
                                      \div bytes.sectors_per_cluster)
        ELSE IF checks
        THEN Parsed("Panic", "", NoBiosParameterBlock)
        ELSE FromDataClusterCount(bytes, sectors_per_allocation_table,
                                  WrappedQuotient(used - total_sector_count,
                                                  bytes.sectors_per_cluster))

\* The media types from_boot_sector accepts: 0xF0 and 0xF8 to 0xFF
\* (bios_parameter_block.rs:56-59).
MediaTypes == {240} \cup (248 .. 255)

\* BiosParameterBlock::from_boot_sector (bios_parameter_block.rs:28-185).
FromBootSector(bytes, checks) ==
    IF bytes.bytes_per_sector \notin {512, 1024, 2048, 4096}
    THEN ParsedErr("BytesPerSectorInvalid")
    ELSE IF bytes.sectors_per_cluster \notin {1, 2, 4, 8, 16, 32, 64, 128}
    THEN ParsedErr("SectorsPerClusterInvalid")
    ELSE IF bytes.reserved_sector_count = 0
    THEN ParsedErr("ReservedSectorCountInvalid")
    ELSE IF bytes.allocation_table_count = 0
    THEN ParsedErr("AllocationTableCountInvalid")
    ELSE IF bytes.media_type \notin MediaTypes
    THEN ParsedErr("MediaTypeInvalid")
    ELSE IF bytes.total_sector_count_16bit = 0 /\ bytes.total_sector_count_32bit = 0
    THEN ParsedErr("TotalSectorCountNotSet")
    ELSE IF /\ bytes.sectors_per_allocation_table_16bit = 0
            /\ bytes.sectors_per_allocation_table_32bit = 0
    THEN ParsedErr("SectorsPerAllocationTableNotSet")
    ELSE FromSectorCounts(bytes,
                          IF bytes.total_sector_count_16bit > 0
                          THEN bytes.total_sector_count_16bit
                          ELSE bytes.total_sector_count_32bit,
                          IF bytes.sectors_per_allocation_table_16bit > 0
                          THEN bytes.sectors_per_allocation_table_16bit
                          ELSE bytes.sectors_per_allocation_table_32bit,
                          checks)

\* BiosParameterBlock::allocation_table_base_address
\* (bios_parameter_block.rs:199-201).
AllocationTableBaseAddress(block) ==
    block.bytes_per_sector * block.reserved_sector_count

\* -------------------------------------------- allocation table: entry values

\* AllocationTableEntry::new, which AllocationTable::read_entry calls as
\* from_entry_value (allocation_table/entry.rs:17-31).
FromEntryValue_BadSectorIsEnd(kind, entry_value) ==
    IF entry_value = 0 THEN Free
    ELSE IF entry_value = 1 THEN Reserved
    ELSE IF entry_value < BadSectorValue(kind) THEN NextClusterNumber(entry_value)
    ELSE EndOfFile

FromEntryValue(kind, entry_value) ==
    IF entry_value = 0 THEN Free
    ELSE IF entry_value = 1 THEN Reserved
    ELSE IF entry_value < BadSectorValue(kind) THEN NextClusterNumber(entry_value)
    ELSE IF entry_value = BadSectorValue(kind) THEN BadSector
    ELSE EndOfFile

\* ----------------------------------------- allocation table: entries in bytes

\* A u32 as its 32 bits, bit 0 the lowest, and the bitwise operators of Rust on
\* it.
BitIndices == 0 .. 31

Bit(v, i) == (v \div (2 ^ i)) % 2

\* The u32 of a value below 2^31.
WordOf(v) == [i \in BitIndices |-> IF i = 31 THEN 0 ELSE Bit(v, i)]

RECURSIVE ValueFrom(_, _)
ValueFrom(word, i) == IF i > 30 THEN 0 ELSE word[i] + 2 * ValueFrom(word, i + 1)

\* The value of a u32 whose highest bit is clear.
ValueOf(word) == ValueFrom(word, 0)

ShiftRight(word, n) == [i \in BitIndices |-> IF i + n <= 31 THEN word[i + n] ELSE 0]

ShiftLeft(word, n) == [i \in BitIndices |-> IF i >= n THEN word[i - n] ELSE 0]

BitAnd(a, b) == [i \in BitIndices |-> a[i] * b[i]]

BitOr(a, b) == [i \in BitIndices |-> IF a[i] + b[i] > 0 THEN 1 ELSE 0]

BitNot(a) == [i \in BitIndices |-> 1 - a[i]]

\* read_le_u32 and write_le_u32 at offset 0 of four bytes (utils.rs:39-50).
ReadLeU32(bytes) == [i \in BitIndices |-> Bit(bytes[(i \div 8) + 1], i % 8)]

WriteLeU32(word) ==
    [k \in 1 .. 4 |->
        word[8 * k - 8] + 2 * word[8 * k - 7] + 4 * word[8 * k - 6]
            + 8 * word[8 * k - 5] + 16 * word[8 * k - 4] + 32 * word[8 * k - 3]
            + 64 * word[8 * k - 2] + 128 * word[8 * k - 1]]

\* AllocationTableKind::entry_mask as a u32: !(!0 << bit_count) (kind.rs:42).
EntryMaskWord(kind) == BitNot(ShiftLeft(BitNot(WordOf(0)), EntryBits(kind)))

\* AllocationTable::resolve_entry_value (allocation_table.rs:86-94).
ResolveEntryValue(kind, entry_value_bytes, is_nibble_offset) ==
    LET entry_value == ReadLeU32(entry_value_bytes)
    IN  ValueOf(BitAnd(IF is_nibble_offset THEN ShiftRight(entry_value, 4)
                       ELSE entry_value,
                       EntryMaskWord(kind)))

\* AllocationTable::resolve_entry_address (allocation_table.rs:96-108).
ResolveEntryAddress_NibbleWhenEven(kind, base_address, cluster_number) ==
    [address |-> base_address
                    + (CASE kind = "Fat12" -> cluster_number + (cluster_number \div 2)
                         [] kind = "Fat16" -> cluster_number * 2
                         [] kind = "Fat32" -> cluster_number * 4),
     is_nibble_offset |-> kind = "Fat12" /\ cluster_number % 2 = 0]

ResolveEntryAddress(kind, base_address, cluster_number) ==
    [address |-> base_address
                    + (CASE kind = "Fat12" -> cluster_number + (cluster_number \div 2)
                         [] kind = "Fat16" -> cluster_number * 2
                         [] kind = "Fat32" -> cluster_number * 4),
     is_nibble_offset |-> kind = "Fat12" /\ cluster_number % 2 = 1]

\* The number of bytes read_entry reads (allocation_table.rs:41-48).
EntryReadLength(kind) == IF kind = "Fat32" THEN 4 ELSE 2

\* The bytes the streams are made of: 0x00, 0x01, 0x12, 0x7F, 0xF7, 0xFF, 0x0F.
StreamBytes == <<0, 1, 18, 127, 247, 255, 15>>

\* The byte a stream holds at an address. A stream repeats four bytes, and
\* `content` numbers the choices of the four.
StreamByte(content, address) ==
    StreamBytes[((content \div (Len(StreamBytes) ^ (address % 4))) % Len(StreamBytes)) + 1]

\* stream.seek(SeekFrom::Start(address)) followed by stream.read_exact of a
\* buffer of `length` bytes.
ReadExactAt(content, address, length) ==
    [k \in 1 .. length |-> StreamByte(content, address + k - 1)]

\* AllocationTable::read_entry and read_entry_async (allocation_table.rs:29-55,
\* 56-84) on a stream that delivers: the address it seeks to, the number of
\* bytes it reads there into [0u8; 4], and the entry it returns.
ReadEntry(kind, base_address, cluster_number, content) ==
    LET entry_address == ResolveEntryAddress(kind, base_address, cluster_number)
        read == ReadExactAt(content, entry_address.address, EntryReadLength(kind))
        entry_value_bytes == [k \in 1 .. 4 |-> IF k <= Len(read) THEN read[k] ELSE 0]
    IN  [address |-> entry_address.address,
         length |-> EntryReadLength(kind),
         entry |-> FromEntryValue(kind,
                      ResolveEntryValue(kind, entry_value_bytes,
                                        entry_address.is_nibble_offset))]

\* PhysicalAllocationTableEntry::new (physical_entry.rs:12-21).
PhysicalEntryNew(kind, value) ==
    IF value <= EntryMask(kind)
    THEN [status |-> "Ok", table_kind |-> kind, value |-> value]
    ELSE [status |-> "Err", table_kind |-> kind, value |-> 0]

\* PhysicalAllocationTableEntry::from_bytes and ::as_logical_entry
\* (physical_entry.rs:23-47) of four bytes.
LogicalEntryFromBytes(kind, bytes, is_nibble_offset) ==
    FromEntryValue(kind, ResolveEntryValue(kind, bytes, is_nibble_offset))

\* PhysicalAllocationTableEntry::as_logical_entry (physical_entry.rs:45-47).
AsLogicalEntry(physical_entry) ==
    FromEntryValue(physical_entry.table_kind, physical_entry.value)

\* PhysicalAllocationTableEntry::write (physical_entry.rs:49-68): the four
\* bytes after the write. The assert_eq! panics for a nibble offset in a table
\* that is not Fat12.
PhysicalEntryWrite_MaskNotShifted(physical_entry, bytes, is_nibble_offset) ==
    LET shift == IF is_nibble_offset THEN 4 ELSE 0
        mask == EntryMaskWord(physical_entry.table_kind)
        entry_value == ShiftLeft(WordOf(physical_entry.value), shift)
    IN  IF is_nibble_offset /\ physical_entry.table_kind # "Fat12"
        THEN [status |-> "Panic", bytes |-> bytes]
        ELSE [status |-> "Ok",
              bytes |-> WriteLeU32(BitOr(BitAnd(ReadLeU32(bytes), BitNot(mask)),
                                         entry_value))]

PhysicalEntryWrite(physical_entry, bytes, is_nibble_offset) ==
    LET shift == IF is_nibble_offset THEN 4 ELSE 0
        mask == ShiftLeft(EntryMaskWord(physical_entry.table_kind), shift)
        entry_value == ShiftLeft(WordOf(physical_entry.value), shift)
    IN  IF is_nibble_offset /\ physical_entry.table_kind # "Fat12"
        THEN [status |-> "Panic", bytes |-> bytes]
        ELSE [status |-> "Ok",
              bytes |-> WriteLeU32(BitOr(BitAnd(ReadLeU32(bytes), BitNot(mask)),
                                         entry_value))]

\* A physical entry made of a value, written into four bytes, and the bytes
\* read back: the status ("Err" when the value has no physical entry, and
\* nothing is written), the bytes, the logical entry of what was written and
\* the logical entry read.
WriteAndReadBack(kind, value, bytes, is_nibble_offset) ==
    LET physical_entry == PhysicalEntryNew(kind, value)
        result == PhysicalEntryWrite(physical_entry, bytes, is_nibble_offset)
    IN  IF physical_entry.status = "Err"
        THEN [status |-> "Err", bytes |-> bytes, written |-> Free, read_back |-> Free]
        ELSE [status |-> result.status, bytes |-> result.bytes,
              written |-> AsLogicalEntry(physical_entry),
              read_back |-> LogicalEntryFromBytes(kind, result.bytes, is_nibble_offset)]

\* ----------------------------------------------- ShortName records in bytes

\* The name of ShortNameDirectoryEntry::from_bytes (short_name.rs:24-42): the
\* first 11 bytes of the record, a first byte 0x05 replaced by 0xE5.
ShortNameFromBytes(data) ==
    [i \in 1 .. Len(data) |-> IF i = 1 /\ data[i] = 5 THEN 229 ELSE data[i]]

\* The first 11 bytes ShortNameDirectoryEntry::write puts into a record
\* (short_name.rs:61-67): the name, a first byte 0xE5 replaced by 0x05.
ShortNameWrite(name) ==
    [i \in 1 .. Len(name) |-> IF i = 1 /\ name[i] = 229 THEN 5 ELSE name[i]]

\* The checksum DirectoryItemBuilder::build compares with the one of the
\* LongName chain (builder.rs:120-123): entry.name().checksum() of the entry as
\* from_bytes decoded it. Also the name, the bytes write makes of it, and the
\* checksum of the entry decoded from those.
ShortNameChecksums(data) ==
    LET name == ShortNameFromBytes(data)
        written == ShortNameWrite(name)
    IN  [name |-> name, checksum |-> Checksum(name), written |-> written,
         checksum_again |-> Checksum(ShortNameFromBytes(written))]

\* -------------------------------------------------------- FileSystem::new

\* What the device does to the three operations of FileSystem::new: nothing, or
\* a fault in one of them. with_stream fails with a device error, seek with a
\* stream error, read_exact with a stream error (ReadExactError::Other) or at
\* the end of the stream (UnexpectedEof), after it has put `delivered` bytes into
\* the buffer.
Fault(at, error, delivered) == [at |-> at, error |-> error, delivered |-> delivered]

NoFault == Fault("none", "", 512)

\* The lengths at which a failing read_exact stops: nothing, the fields up to
\* the 16-bit table size, all but the last byte.
DeliveredLengths == {0, 24, 511}

BootSectorFaults ==
    {NoFault, Fault("with_stream", "DeviceError", 0), Fault("seek", "StreamError", 0)}
        \cup {Fault("read_exact", e, n) :
                 e \in {"StreamError", "StreamEndReached"}, n \in DeliveredLengths}

\* The offset behind the last byte of each field of the boot sector.
FieldEnd ==
    [bytes_per_sector |-> 13, sectors_per_cluster |-> 14,
     reserved_sector_count |-> 16, allocation_table_count |-> 17,
     root_directory_entry_count |-> 19, total_sector_count_16bit |-> 21,
     media_type |-> 22, sectors_per_allocation_table_16bit |-> 24,
     total_sector_count_32bit |-> 36, sectors_per_allocation_table_32bit |-> 40,
     ext_flags |-> 42, filesystem_version |-> 44,
     root_directory_file_cluster_number |-> 48, fs_info_sector_index |-> 50,
     signature |-> 512]

\* boot_sector_bytes after the closure of FileSystem::new has run: [0; 512]
\* (file_system.rs:136, 217) overwritten by the first `delivered` bytes of the
\* sector.
BootSectorBytes(sector, delivered) ==
    [f \in DOMAIN sector |->
        IF f = "signature"
        THEN <<IF delivered >= 511 THEN sector.signature[1] ELSE 0,
               IF delivered >= 512 THEN sector.signature[2] ELSE 0>>
        ELSE IF FieldEnd[f] <= delivered THEN sector[f] ELSE 0]

\* The closure handed to with_stream (file_system.rs:140-146, 221-227): the
\* Result it returns and the bytes it leaves in the buffer.
ReadBootSector(sector, fault) ==
    IF fault.at = "seek"
    THEN [status |-> "Err", error |-> fault.error, bytes |-> BootSectorBytes(sector, 0)]
    ELSE IF fault.at = "read_exact"
    THEN [status |-> "Err", error |-> fault.error,
          bytes |-> BootSectorBytes(sector, fault.delivered)]
    ELSE [status |-> "Ok", error |-> "", bytes |-> BootSectorBytes(sector, 512)]

\* FileSystem::validate_boot_sector_signature (file_system.rs:107-120).
ValidateBootSectorSignature(bytes) == bytes.signature = <<85, 170>>

\* The FileSystem made of a BiosParameterBlock (file_system.rs:153-166,
\* 235-248), and the one that stands where none was made.
FileSystem(block) ==
    [allocation_table |-> [kind |-> block.allocation_table_kind,
                           base_address |-> AllocationTableBaseAddress(block)],
     bios_parameter_block |-> block]

NoFileSystem == [bios_parameter_block |-> NoBiosParameterBlock]

Made(status, error, cause, value) ==
    [status |-> status, error |-> error, cause |-> cause, value |-> value]

\* FileSystem::new and new_async (file_system.rs:131-167, 212-249). with_stream
\* returns the Result of the closure inside its own Result; `?` takes the outer
\* one apart and the statement ends there, so the Result of the closure is
\* dropped (file_system.rs:148, 230) and the buffer is used as it stands.
FileSystemNew(sector, fault, checks) ==
    LET closure == ReadBootSector(sector, fault)
        block == FromBootSector(closure.bytes, checks)
    IN  IF fault.at = "with_stream"
        THEN Made("Err", "DeviceError", "", NoFileSystem)
        ELSE IF ~ValidateBootSectorSignature(closure.bytes)
        THEN Made("Err", "InvalidFatSignature", "", NoFileSystem)
        ELSE IF block.status = "Err"
        THEN Made("Err", "InvalidBiosParameterBlock", block.error, NoFileSystem)
        ELSE IF block.status = "Panic"
        THEN Made("Panic", "", "", NoFileSystem)
        ELSE Made("Ok", "", "", FileSystem(block.value))

\* -------------------------------------------------------- directory: calls

NoReturned == Returned("None", NoItem, "", NewTableIterator(0), <<>>, 0)

NoFound == Found("None", NoItem, 0, <<>>)

\* The record of a call on the directory.
ItemCall(op, file_path, before, returned, found) ==
    [op |-> op, file_path |-> file_path, before |-> before,
     returned |-> returned, found |-> found]

ItemIdle == ItemCall("idle", <<>>, NewTableIterator(0), NoReturned, NoFound)

\* ------------------------------------------------- directory: entry calls

\* What is kept of the call before the last one: the operation and its result.
Previous(op, outcome) ==
    [op |-> op, status |-> outcome.status, entry |-> outcome.entry,
     advanced |-> outcome.advanced, error |-> outcome.error]

NoEntryOutcome ==
    EntryOutcome("None", InvalidEntry, FALSE, "", NewTableIterator(0), <<>>, <<>>)

NoPrevious == Previous("none", NoEntryOutcome)

\* The record of a call on the entry iterator: the operation, the iterator
\* before it, what it returned and did, and the call that came before it.
EntryCall(op, before, outcome, previous) ==
    [op |-> op, before |-> before, outcome |-> outcome, previous |-> previous]

EntryIdle(previous) ==
    EntryCall("idle", NewTableIterator(0), NoEntryOutcome, previous)

\* No directory is open.
NoDirectory ==
    /\ directory = <<>>
    /\ entry_iterator = NewTableIterator(0)
    /\ item_last = ItemIdle
    /\ entry_last = EntryIdle(NoPrevious)

vars == <<fileVars, dirVars, devVars, fnVars>>

\* ------------------------------------------------------------ File: behaviour

\* A File freshly opened on a volume whose allocation table holds any chain for
\* it: well formed, ending in an unexpected entry, or cyclic. Entries of clusters
\* outside the file's chain are Free. The file starts at the volume's last
\* cluster, so its chain runs against the cluster numbering.
InitFile ==
    /\ is_async \in BOOLEAN
    /\ overflow_checks \in BOOLEAN
    /\ allocation_table \in [Clusters -> AllocationTableEntry]
    /\ \E b \in BytesPerCluster, s \in 0 .. MaxFileSize :
          file = NewFile(b, LastCluster, s)
    /\ \A k \in Clusters \ ChainClusters(allocation_table, LastCluster, {}) :
          allocation_table[k] = Free
    /\ last = Idle(file)
    /\ NoDirectory
    /\ NoDevice
    /\ NoFunction

\* The program is running: no earlier call panicked.
Running == last.result.status # "Panic"

\* No call is in progress and none has a result pending.
IsIdle == last.op = "idle"

SeekOffsets == ((0 - MaxStep) .. MaxStep) \cup {I64Min, I64Max}

SeekInputs ==
    {SeekFrom("Start", a) : a \in (0 .. (U32Max + 1)) \cup {U64Max}}
        \cup {SeekFrom("Current", o) : o \in SeekOffsets}
        \cup {SeekFrom("End", o) : o \in SeekOffsets}

\* A call of seek on the File.
DoSeek ==
    /\ IsIdle
    /\ \E pos \in SeekInputs :
          LET outcome == Seek(file, allocation_table, pos, is_async, overflow_checks)
          IN  /\ file' = outcome.file
              /\ last' = Call("seek", pos, 0, file, outcome)
    /\ UNCHANGED <<allocation_table, is_async, overflow_checks, dirVars, devVars, fnVars>>

\* A call of read on the File with a buffer of buf_len bytes; the device delivers
\* between 0 and target_read_size bytes.
DoRead ==
    /\ IsIdle
    /\ \E buf_len \in 0 .. MaxBufLen :
          LET target == ResolveMaxReadSize(file, buf_len, overflow_checks)
          IN  \E actual \in 0 .. (IF target.status = "Ok" THEN target.value ELSE 0) :
                 LET outcome == Read(file, allocation_table, buf_len, actual,
                                     is_async, overflow_checks)
                 IN  /\ file' = outcome.file
                     /\ last' = Call("read", NoSeek, buf_len, file, outcome)
    /\ UNCHANGED <<allocation_table, is_async, overflow_checks, dirVars, devVars, fnVars>>

\* The caller takes the result of the call that returned; the File is idle again.
Return ==
    /\ Running
    /\ last.op # "idle"
    /\ last' = Idle(file)
    /\ UNCHANGED <<file, allocation_table, is_async, overflow_checks, dirVars, devVars, fnVars>>

NextFile == DoSeek \/ DoRead \/ Return

SpecFile == InitFile /\ [][NextFile]_vars

\* The async impls alone.
InitFileAsync == InitFile /\ is_async = TRUE

SpecFileAsync == InitFileAsync /\ [][NextFile]_vars

\* ------------------------------------------------------ directory: behaviour

\* An item iterator freshly made over a root directory table of any content.
InitDir ==
    /\ is_async \in BOOLEAN
    /\ overflow_checks = FALSE
    /\ allocation_table = [k \in Clusters |-> IF k = LastCluster THEN EndOfFile ELSE Free]
    /\ file = NewFile(2, LastCluster, 0)
    /\ last = Idle(file)
    /\ directory \in Directories
    /\ entry_iterator = NewTableIterator(Len(directory))
    /\ item_last = ItemIdle
    /\ entry_last = EntryIdle(NoPrevious)
    /\ NoDevice
    /\ NoFunction

ItemIsIdle == item_last.op = "idle"

\* A call of next (next_async) on the item iterator.
DoNext ==
    /\ ItemIsIdle
    /\ LET returned == NextItem(entry_iterator, directory, is_async)
       IN  /\ entry_iterator' = returned.entry_iterator
           /\ item_last' = ItemCall("next", <<>>, entry_iterator, returned, NoFound)
    /\ UNCHANGED <<directory, entry_last, fileVars, devVars, fnVars>>

\* A path lookup in the directory; it iterates with an iterator of its own.
DoFindItem ==
    /\ ItemIsIdle
    /\ \E file_path \in Paths :
          item_last' = ItemCall("find_item", file_path, entry_iterator, NoReturned,
                                FindItem(directory, file_path, is_async))
    /\ UNCHANGED <<directory, entry_iterator, entry_last, fileVars, devVars, fnVars>>

\* The caller takes what the call returned; a lookup that diverges never returns.
ReturnItem ==
    /\ ~ItemIsIdle
    /\ item_last.found.status # "Diverges"
    /\ item_last' = ItemIdle
    /\ UNCHANGED <<directory, entry_iterator, entry_last, fileVars, devVars, fnVars>>

\* A caller that walks the directory with the item iterator.
NextDir == DoNext \/ ReturnItem

SpecDir == InitDir /\ [][NextDir]_vars

\* A caller that looks paths up in the directory.
NextLookup == DoFindItem \/ ReturnItem

SpecLookup == InitDir /\ [][NextLookup]_vars

\* ------------------------------------------- directory: chains of whole names

\* The lengths a long name can have.
NameLengths == 1 .. LONG_NAME_MAX_LENGTH

\* 'A' and 'a'.
FirstCharacters == {65, 97}

\* A name of `length` letters: the alphabet over and over, from `first` on.
NameOf(length, first) == [i \in 1 .. length |-> first + ((i - 1) % 26)]

\* The number of LongName entries that hold a name of `length` code units.
ChainEntryCount(length) ==
    (length + LONG_NAME_CHARACTERS_PER_ENTRY - 1) \div LONG_NAME_CHARACTERS_PER_ENTRY

\* The 13 code units of the entry with sequence number `number` of the chain that
\* holds `name`: its characters, the null terminator after the last one, 0xFFFF
\* after the terminator.
Stride(name, number) ==
    [i \in 1 .. LONG_NAME_CHARACTERS_PER_ENTRY |->
        LET index == (number - 1) * LONG_NAME_CHARACTERS_PER_ENTRY + i
        IN  IF index <= Len(name) THEN name[index]
            ELSE IF index = Len(name) + 1 THEN NullCharacter
            ELSE LONG_NAME_PADDING_CHARACTER]

\* The well-formed chain that holds `name` for the short name `short_name`, as it
\* is stored: the entry with the highest number and the is-last flag (0x40) first.
ChainFor(name, short_name) ==
    LET entry_count == ChainEntryCount(Len(name))
    IN  [k \in 1 .. entry_count |->
            LongNameDirectoryEntry(
                (IF k = 1 THEN 64 ELSE 0) + (entry_count - k + 1),
                Checksum(short_name),
                Stride(name, entry_count - k + 1))]

\* A directory that holds the chain of `name` and then its ShortName entry.
ChainDirectory(name, short_name) ==
    ChainFor(name, short_name) \o <<ShortNameDirectoryEntry(short_name)>>

\* An item iterator freshly made over a directory that holds one item with a
\* long name of any length.
InitChain ==
    /\ is_async \in BOOLEAN
    /\ overflow_checks = FALSE
    /\ allocation_table = [k \in Clusters |-> IF k = LastCluster THEN EndOfFile ELSE Free]
    /\ file = NewFile(2, LastCluster, 0)
    /\ last = Idle(file)
    /\ directory \in {ChainDirectory(NameOf(length, first), FooTxt) :
                         length \in NameLengths, first \in FirstCharacters}
    /\ entry_iterator = NewTableIterator(Len(directory))
    /\ item_last = ItemIdle
    /\ entry_last = EntryIdle(NoPrevious)
    /\ NoDevice
    /\ NoFunction

SpecChain == InitChain /\ [][NextDir]_vars

\* ------------------------------------------ directory: chains of any strides

\* The leading code units of a stride of a LongName entry that vary freely.
StrideHead == 3

\* The code units the strides are made of: null, 'A', and the padding value.
StrideUnits == {NullCharacter, 65, LONG_NAME_PADDING_CHARACTER}

\* The strides whose first StrideHead code units are any of StrideUnits and whose
\* other code units are all the same one of them.
Strides ==
    {[i \in 1 .. LONG_NAME_CHARACTERS_PER_ENTRY |->
         IF i <= StrideHead THEN head[i] ELSE tail] :
        head \in [1 .. StrideHead -> StrideUnits], tail \in StrideUnits}

\* The directories that hold a chain of one or of two LongName entries with
\* correct flags, numbers and checksums and with any strides, and the ShortName
\* entry of the chain.
StrideDirectories ==
    {<<LongNameDirectoryEntry(65, Checksum(FooTxt), only),
       ShortNameDirectoryEntry(FooTxt)>> : only \in Strides}
        \cup {<<LongNameDirectoryEntry(66, Checksum(FooTxt), first),
                LongNameDirectoryEntry(1, Checksum(FooTxt), second),
                ShortNameDirectoryEntry(FooTxt)>> :
                 first \in Strides, second \in Strides}

\* An item iterator freshly made over one of these directories.
InitStride ==
    /\ is_async \in BOOLEAN
    /\ overflow_checks = FALSE
    /\ allocation_table = [k \in Clusters |-> IF k = LastCluster THEN EndOfFile ELSE Free]
    /\ file = NewFile(2, LastCluster, 0)
    /\ last = Idle(file)
    /\ directory \in StrideDirectories
    /\ entry_iterator = NewTableIterator(Len(directory))
    /\ item_last = ItemIdle
    /\ entry_last = EntryIdle(NoPrevious)
    /\ NoDevice
    /\ NoFunction

SpecStride == InitStride /\ [][NextDir]_vars

\* ------------------------------------------- directory: entry iterator behaviour

\* The records of a directory of `count` slots: short-name records, of which at
\* most one is replaced by a record that does not decode.
EntryRecords(count) ==
    {[i \in 1 .. count |->
         IF i = bad THEN InvalidEntry ELSE ShortNameDirectoryEntry(FooTxt)] :
       bad \in 0 .. count}

\* An entry iterator freshly made over a directory of either strategy: a table
\* of up to MaxEntryCount records, or a directory file that starts at the
\* volume's last cluster, whose chain in the allocation table is well formed,
\* ends in an unexpected entry, or is cyclic.
InitEntries ==
    /\ is_async = FALSE
    /\ overflow_checks \in BOOLEAN
    /\ file = NewFile(2, LastCluster, 0)
    /\ last = Idle(file)
    /\ item_last = ItemIdle
    /\ entry_last = EntryIdle(NoPrevious)
    /\ NoDevice
    /\ NoFunction
    /\ \/ /\ allocation_table =
                [k \in Clusters |-> IF k = LastCluster THEN EndOfFile ELSE Free]
          /\ \E entry_count \in 0 .. MaxEntryCount :
                /\ directory \in EntryRecords(entry_count)
                /\ entry_iterator = NewTableIterator(entry_count)
       \/ /\ allocation_table \in [Clusters -> AllocationTableEntry]
          /\ \A k \in Clusters \ ChainClusters(allocation_table, LastCluster, {}) :
                allocation_table[k] = Free
          /\ \E bytes_per_cluster \in DirectoryBytesPerCluster :
                /\ directory \in EntryRecords(
                       (LastCluster - 1) * (bytes_per_cluster \div DIRECTORY_ENTRY_SIZE))
                /\ entry_iterator = NewFileIterator(0, bytes_per_cluster, LastCluster)

EntryIsIdle == entry_last.op = "idle"

\* The program is running: no earlier call on the entry iterator panicked.
EntryRunning == entry_last.previous.status # "Panic"

\* A call of peek (peek_async) on the entry iterator.
DoPeek ==
    /\ EntryIsIdle /\ EntryRunning
    /\ LET outcome == EntryPeek(entry_iterator, directory)
       IN  /\ entry_iterator' = outcome.iterator
           /\ entry_last' = EntryCall("peek", entry_iterator, outcome,
                                      entry_last.previous)
    /\ UNCHANGED <<directory, item_last, fileVars, devVars, fnVars>>

\* A call of advance (advance_async) on the entry iterator.
DoAdvance ==
    /\ EntryIsIdle /\ EntryRunning
    /\ LET outcome == EntryAdvance(entry_iterator, allocation_table, overflow_checks)
       IN  /\ entry_iterator' = outcome.iterator
           /\ entry_last' = EntryCall("advance", entry_iterator, outcome,
                                      entry_last.previous)
    /\ UNCHANGED <<directory, item_last, fileVars, devVars, fnVars>>

\* A call of next (next_async) on the entry iterator.
DoEntryNext ==
    /\ EntryIsIdle /\ EntryRunning
    /\ LET outcome == EntryNext(entry_iterator, directory, allocation_table,
                                overflow_checks)
       IN  /\ entry_iterator' = outcome.iterator
           /\ entry_last' = EntryCall("next", entry_iterator, outcome,
                                      entry_last.previous)
    /\ UNCHANGED <<directory, item_last, fileVars, devVars, fnVars>>

\* The caller takes what the call returned.
ReturnEntry ==
    /\ ~EntryIsIdle
    /\ entry_last' = EntryIdle(Previous(entry_last.op, entry_last.outcome))
    /\ UNCHANGED <<directory, entry_iterator, item_last, fileVars, devVars, fnVars>>

NextEntries == DoPeek \/ DoAdvance \/ DoEntryNext \/ ReturnEntry

SpecEntries == InitEntries /\ [][NextEntries]_vars

\* ------------------------------------------------------- device: behaviour

\* Tasks about to start operations on one SingleAccessDevice.
InitDevice ==
    /\ is_async \in BOOLEAN
    /\ overflow_checks = FALSE
    /\ allocation_table = [k \in Clusters |-> IF k = LastCluster THEN EndOfFile ELSE Free]
    /\ file = NewFile(2, LastCluster, 0)
    /\ last = Idle(file)
    /\ NoDirectory
    /\ NoDevice
    /\ NoFunction

\* A task starts an operation, which asks for its first scope: with_stream for
\* peek, read and advance, flush for flush. A refused scope ends the operation.
StartOperation(t) ==
    /\ tasks[t].pc = "idle"
    /\ \E op \in Operations :
          LET asked == WithStream(stream)
              contended == \E u \in Tasks \ {t} : InScope(u)
          IN  /\ stream' = asked.stream
              /\ tasks' = [tasks EXCEPT ![t] =
                    IF asked.entered
                    THEN Task(IF op = "flush" THEN "flushing" ELSE "scope", op, 1, 1,
                              FALSE, <<>>, "", op # "flush", contended, FALSE)
                    ELSE Task("done", op, 1, 1, FALSE, <<>>, "StreamInUse", FALSE,
                              contended, FALSE)]
    /\ UNCHANGED <<fileVars, dirVars, fnVars>>

\* Inside a scope: the seek before a read.
StreamSeek(t) ==
    /\ tasks[t].pc = "scope"
    /\ ~tasks[t].sought
    /\ tasks[t].step <= Len(PlanOf(tasks[t].op, t)[tasks[t].scope])
    /\ stream' = SeekTo(stream, t, PlanOf(tasks[t].op, t)[tasks[t].scope][tasks[t].step])
    /\ tasks' = [tasks EXCEPT ![t].sought = TRUE]
    /\ UNCHANGED <<fileVars, dirVars, fnVars>>

\* Inside a scope: the read after the seek.
StreamRead(t) ==
    /\ tasks[t].pc = "scope"
    /\ tasks[t].sought
    /\ stream' = ReadOn(stream, t)
    /\ tasks' = [tasks EXCEPT
                    ![t].sought = FALSE,
                    ![t].step = @ + 1,
                    ![t].got = Append(@, ContentAt(stream.position)),
                    ![t].foreign = @ \/ stream.set_by # t]
    /\ UNCHANGED <<fileVars, dirVars, fnVars>>

\* The closure of a scope returns and with_stream drops the borrow. An
\* operation with a further scope asks for it without suspending in between.
LeaveScope(t) ==
    /\ tasks[t].pc = "scope"
    /\ ~tasks[t].sought
    /\ tasks[t].step > Len(PlanOf(tasks[t].op, t)[tasks[t].scope])
    /\ IF tasks[t].scope < Len(PlanOf(tasks[t].op, t))
       THEN LET asked == WithStream(Released(stream))
            IN  /\ stream' = asked.stream
                /\ tasks' = [tasks EXCEPT ![t] =
                      IF asked.entered
                      THEN [@ EXCEPT !.scope = @ + 1, !.step = 1]
                      ELSE [@ EXCEPT !.pc = "done", !.result = "StreamInUse"]]
       ELSE /\ stream' = Released(stream)
            /\ tasks' = [tasks EXCEPT ![t].pc = "done", ![t].result = "Ok"]
    /\ UNCHANGED <<fileVars, dirVars, fnVars>>

\* stream.flush() returns and flush drops the borrow.
FlushReturns(t) ==
    /\ tasks[t].pc = "flushing"
    /\ stream' = Released(stream)
    /\ tasks' = [tasks EXCEPT ![t].pc = "done", ![t].result = "Ok"]
    /\ UNCHANGED <<fileVars, dirVars, fnVars>>

\* The task takes the result of its operation.
TakeResult(t) ==
    /\ tasks[t].pc = "done"
    /\ tasks' = [tasks EXCEPT ![t] = IdleTask]
    /\ UNCHANGED <<stream, fileVars, dirVars, fnVars>>

NextDevice ==
    \E t \in Tasks :
        \/ StartOperation(t)
        \/ StreamSeek(t)
        \/ StreamRead(t)
        \/ LeaveScope(t)
        \/ FlushReturns(t)
        \/ TakeResult(t)

SpecDevice == InitDevice /\ [][NextDevice]_vars

\* ------------------------------------------------------ volume: behaviour

\* The 11 name bytes of "FOO".
Foo == <<70, 79, 79, 32, 32, 32, 32, 32, 32, 32, 32>>

\* The records of a root directory table: the directory FOO at any cluster, the
\* file BAR.TXT, and a file that is named FOO.
RootRecords ==
    {ShortNameEntry(Foo, TRUE, c) : c \in Clusters}
        \cup {ShortNameEntry(BarTxt, FALSE, 0), ShortNameEntry(Foo, FALSE, 0)}

\* The records of the clusters of the data region: the file BAR.TXT, or the
\* marker that ends a directory.
ClusterRecords == {ShortNameEntry(BarTxt, FALSE, 0), AllFollowing}

\* A root directory table fills all but one of MaxEntryCount slots.
RootEntryCount == MaxEntryCount - 1

\* The allocation tables of a volume whose clusters each end a chain, but for at
\* most one that is chained to another cluster or to itself.
VolumeTables ==
    {[k \in Clusters |-> EndOfFile]}
        \cup {[k \in Clusters |-> IF k = c THEN NextClusterNumber(n) ELSE EndOfFile] :
                 c \in Clusters, n \in Clusters}

\* "foo/bar.txt", "bar.txt" and "foo".
OpenPaths ==
    {<<102, 111, 111, 47, 98, 97, 114, 46, 116, 120, 116>>,
     <<98, 97, 114, 46, 116, 120, 116>>,
     <<102, 111, 111>>}

\* The volume the state holds: a root directory table of RootEntryCount records,
\* followed by a data region whose clusters hold one record each.
TheVolume ==
    Volume(directory, allocation_table, RootEntryCount,
           RootEntryCount * DIRECTORY_ENTRY_SIZE, DIRECTORY_ENTRY_SIZE,
           overflow_checks)

\* A FileSystem on a volume with any root directory table and any records in
\* the clusters.
InitVolume ==
    /\ is_async \in BOOLEAN
    /\ overflow_checks = FALSE
    /\ allocation_table \in VolumeTables
    /\ file = NewFile(2, LastCluster, 0)
    /\ last = Idle(file)
    /\ \E root \in [1 .. RootEntryCount -> RootRecords],
          clusters \in [1 .. (LastCluster - 1) -> ClusterRecords] :
          directory = root \o clusters
    /\ entry_iterator = NewTableIterator(RootEntryCount)
    /\ item_last = ItemIdle
    /\ entry_last = EntryIdle(NoPrevious)
    /\ NoDevice
    /\ NoFunction

\* A call of open (open_async) with a path.
DoOpen ==
    /\ ItemIsIdle
    /\ \E file_path \in OpenPaths :
          item_last' = ItemCall("open", file_path, entry_iterator, NoReturned,
                                Open(TheVolume, file_path, is_async))
    /\ UNCHANGED <<directory, entry_iterator, entry_last, fileVars, devVars, fnVars>>

NextVolume == DoOpen \/ ReturnItem

SpecVolume == InitVolume /\ [][NextVolume]_vars

\* -------------------------------------------------- open in a root directory

\* The volume that is the directory table of the state and nothing else.
TableVolume ==
    Volume(directory, <<>>, Len(directory), Len(directory) * DIRECTORY_ENTRY_SIZE,
           DIRECTORY_ENTRY_SIZE, FALSE)

\* A call of open (open_async) with a path of one part on a volume whose root
\* directory table may hold records that do not decode.
DoOpenInRoot ==
    /\ ItemIsIdle
    /\ \E file_path \in Paths :
          item_last' = ItemCall("open", file_path, entry_iterator, NoReturned,
                                Open(TableVolume, file_path, is_async))
    /\ UNCHANGED <<directory, entry_iterator, entry_last, fileVars, devVars, fnVars>>

NextOpenInRoot == DoOpenInRoot \/ ReturnItem

SpecOpenInRoot == InitDir /\ [][NextOpenInRoot]_vars

\* ------------------------------------------------- boot sector: behaviour

\* No File is open.
NoFile ==
    /\ allocation_table = [k \in Clusters |-> IF k = LastCluster THEN EndOfFile ELSE Free]
    /\ file = NewFile(2, LastCluster, 0)
    /\ last = Idle(file)

Applied(op, result) == [op |-> op, result |-> result]

NotYetApplied == output.op = "idle"

\* Any boot sector, about to be parsed by a build of either kind.
InitBootSector ==
    /\ is_async = FALSE
    /\ overflow_checks \in BOOLEAN
    /\ input \in BootSectorFields
    /\ output = NotApplied
    /\ NoFile
    /\ NoDirectory
    /\ NoDevice

\* A call of BiosParameterBlock::from_boot_sector.
DoFromBootSector ==
    /\ NotYetApplied
    /\ output' = Applied("from_boot_sector", FromBootSector(input, overflow_checks))
    /\ UNCHANGED <<input, fileVars, dirVars, devVars>>

NextBootSector == DoFromBootSector

SpecBootSector == InitBootSector /\ [][NextBootSector]_vars

\* The boot sectors a FileSystem is made of: those of a volume with two
\* allocation tables behind one reserved sector of 512 bytes, with FAT32 fields
\* that pass, and with the signature or without it.
NewBootSectors ==
    {[b EXCEPT !.signature = s] :
        b \in {c \in BootSectorFields :
                  /\ c.bytes_per_sector = 512
                  /\ c.reserved_sector_count = 1
                  /\ c.allocation_table_count = 2
                  /\ c.media_type = 248
                  /\ c.ext_flags = 0
                  /\ c.filesystem_version = 0
                  /\ c.root_directory_file_cluster_number = 2
                  /\ c.fs_info_sector_index = 1},
        s \in {<<85, 170>>, <<0, 0>>}}

\* A device that holds any of these boot sectors and is about to serve
\* FileSystem::new, with or without a fault.
InitNew ==
    /\ is_async \in BOOLEAN
    /\ overflow_checks \in BOOLEAN
    /\ input \in [sector : NewBootSectors, fault : BootSectorFaults]
    /\ output = NotApplied
    /\ NoFile
    /\ NoDirectory
    /\ NoDevice

\* A call of FileSystem::new (new_async).
DoNew ==
    /\ NotYetApplied
    /\ output' = Applied("new", FileSystemNew(input.sector, input.fault, overflow_checks))
    /\ UNCHANGED <<input, fileVars, dirVars, devVars>>

NextNew == DoNew

SpecNew == InitNew /\ [][NextNew]_vars

\* ---------------------------------------------- allocation table: behaviour

\* How far around each boundary the data cluster counts are taken.
Margin == 10

\* Data cluster counts around 0, around the two boundaries of
\* AllocationTableKind::new, around the largest 16-bit value, and the largest.
DataClusterCounts ==
    (0 .. (2 * Margin))
        \cup ((4085 - Margin) .. (4085 + Margin))
        \cup ((65525 - Margin) .. (65525 + Margin))
        \cup {U32Top}

\* A data cluster count about to be classified.
InitKind ==
    /\ is_async = FALSE
    /\ overflow_checks = FALSE
    /\ input \in DataClusterCounts
    /\ output = NotApplied
    /\ NoFile
    /\ NoDirectory
    /\ NoDevice

\* A call of AllocationTableKind::new.
DoKindNew ==
    /\ NotYetApplied
    /\ output' = Applied("kind_new", AllocationTableKindNew(input))
    /\ UNCHANGED <<input, fileVars, dirVars, devVars>>

NextKind == DoKindNew

SpecKind == InitKind /\ [][NextKind]_vars

\* The masked values of an entry of a table of a kind: the smallest, those
\* around the bad-sector and end-of-chain values of every kind, and those up to
\* the mask of the kind.
EntryValues(kind) ==
    {v \in (0 .. Margin)
              \cup UNION {(BadSectorValue(k) - Margin) .. (EndOfChainValue(k) + 7) :
                             k \in AllocationTableKinds}
              \cup ((EntryMask(kind) - Margin) .. EntryMask(kind)) :
        v <= EntryMask(kind)}

\* A masked value read from a table of any kind, about to be decoded.
InitEntryValue ==
    /\ is_async = FALSE
    /\ overflow_checks = FALSE
    /\ \E kind \in AllocationTableKinds :
          input \in [kind : {kind}, entry_value : EntryValues(kind)]
    /\ output = NotApplied
    /\ NoFile
    /\ NoDirectory
    /\ NoDevice

\* A call of AllocationTableEntry::from_entry_value.
DoFromEntryValue ==
    /\ NotYetApplied
    /\ output' = Applied("from_entry_value",
                         FromEntryValue(input.kind, input.entry_value))
    /\ UNCHANGED <<input, fileVars, dirVars, devVars>>

NextEntryValue == DoFromEntryValue

SpecEntryValue == InitEntryValue /\ [][NextEntryValue]_vars

\* The streams: every choice of four bytes.
Streams == 0 .. (Len(StreamBytes) ^ 4 - 1)

\* The cluster numbers entries are read of: the clusters of the small volume
\* and the last two a table of the kind can chain.
ReadClusters(kind) ==
    Clusters \cup {BadSectorValue(kind) - 2, BadSectorValue(kind) - 1}

\* The addresses an allocation table starts at: one reserved sector of 512 or
\* of 4096 bytes.
BaseAddresses == {512, 4096}

\* An allocation table of any kind on any of the streams, about to be asked
\* for the entry of a cluster.
InitReadEntry ==
    /\ is_async = FALSE
    /\ overflow_checks = FALSE
    /\ \E kind \in AllocationTableKinds :
          input \in [kind : {kind}, base_address : BaseAddresses,
                     cluster_number : ReadClusters(kind),
                     stream : Streams]
    /\ output = NotApplied
    /\ NoFile
    /\ NoDirectory
    /\ NoDevice

\* A call of AllocationTable::read_entry (read_entry_async).
DoReadEntry ==
    /\ NotYetApplied
    /\ output' = Applied("read_entry",
                         ReadEntry(input.kind, input.base_address,
                                   input.cluster_number, input.stream))
    /\ UNCHANGED <<input, fileVars, dirVars, devVars>>

NextReadEntry == DoReadEntry

SpecReadEntry == InitReadEntry /\ [][NextReadEntry]_vars

\* The values physical entries are made of: the smallest, those around the
\* bad-sector and the end-of-chain value of the kind, alternating bits, the mask
\* of the kind, and one value beyond it.
WrittenValues(kind) ==
    (0 .. LastCluster)
        \cup {BadSectorValue(kind) - 1, BadSectorValue(kind), EndOfChainValue(kind),
              EntryMask(kind) \div 3, 2 * (EntryMask(kind) \div 3),
              EntryMask(kind), EntryMask(kind) + 1}

\* The four bytes an entry is written into: 0x00, 0xFF and 0x12 in any order.
Windows == [1 .. 4 -> {0, 255, 18}]

\* A value about to be written as a physical entry into four bytes of a table
\* of any kind, at a nibble offset or not.
InitWriteEntry ==
    /\ is_async = FALSE
    /\ overflow_checks = FALSE
    /\ \E kind \in AllocationTableKinds :
          input \in [kind : {kind}, value : WrittenValues(kind), window : Windows,
                     is_nibble_offset : BOOLEAN]
    /\ output = NotApplied
    /\ NoFile
    /\ NoDirectory
    /\ NoDevice

\* PhysicalAllocationTableEntry::new and write, and from_bytes and
\* as_logical_entry of the bytes written.
DoWriteEntry ==
    /\ NotYetApplied
    /\ output' = Applied("write",
                         WriteAndReadBack(input.kind, input.value, input.window,
                                          input.is_nibble_offset))
    /\ UNCHANGED <<input, fileVars, dirVars, devVars>>

NextWriteEntry == DoWriteEntry

SpecWriteEntry == InitWriteEntry /\ [][NextWriteEntry]_vars

\* ------------------------------------------------- ShortName: behaviour

\* The 11 name bytes of the ShortName records on disk: a first byte 0x05 (the
\* escape of 0xE5), 'A' or 'F', then 'A's and spaces.
StoredNames ==
    {name \in [1 .. 11 -> {5, 32, 65, 70}] :
        /\ name[1] # 32
        /\ \A i \in 2 .. 11 : name[i] \in {32, 65}}

\* A ShortName record on disk, about to be decoded.
InitShortName ==
    /\ is_async = FALSE
    /\ overflow_checks = FALSE
    /\ input \in StoredNames
    /\ output = NotApplied
    /\ NoFile
    /\ NoDirectory
    /\ NoDevice

\* ShortNameDirectoryEntry::from_bytes, name().checksum(), and write.
DoShortNameChecksum ==
    /\ NotYetApplied
    /\ output' = Applied("checksum", ShortNameChecksums(input))
    /\ UNCHANGED <<input, fileVars, dirVars, devVars>>

NextShortName == DoShortNameChecksum

SpecShortName == InitShortName /\ [][NextShortName]_vars

\* ------------------------------------------------------- I/O faults: model

\* One call on the device or on the stream it lends: with_stream
\* (device.rs:27-29), or seek, read, read_exact on the stream inside the
\* closure. `region` and `at` say what the call addresses, `scope` numbers the
\* with_stream closure the call belongs to (0: the caller's own stream), and
\* `handled` is what the call site does with an error of the call: "returned"
\* when every layer of the Result is unwrapped with `?` or a propagate macro,
\* "dropped" when a layer is discarded.
DeviceCall(call, region, at, scope, handled) ==
    [call |-> call, region |-> region, at |-> at, scope |-> scope,
     handled |-> handled]

EnterStream(scope, handled) == DeviceCall("with_stream", "device", 0, scope, handled)

\* AllocationTable::read_entry (allocation_table.rs:29-55) and its async twin
\* (56-84): a seek to the entry and one read_exact, each followed by `?`.
ReadEntryCalls(cluster_number, scope) ==
    <<DeviceCall("seek", "table", cluster_number, scope, "returned"),
      DeviceCall("read_exact", "table", cluster_number, scope, "returned")>>

RECURSIVE ReadEntriesCalls(_, _)
ReadEntriesCalls(reads, scope) ==
    IF reads = <<>>
    THEN <<>>
    ELSE ReadEntryCalls(Head(reads), scope) \o ReadEntriesCalls(Tail(reads), scope)

\* The device calls of peek (table.rs:76-94, file.rs:85-108): none when the
\* iterator is exhausted, else with_stream around a seek and a read_exact of
\* the record, the whole under propagate_device_iteration_errors!.
PeekCalls_InnerDropped(iterator, entries) ==
    LET outcome == EntryPeek(iterator, entries)
    IN  IF outcome.record_reads = <<>>
        THEN <<>>
        ELSE <<EnterStream(1, "returned"),
               DeviceCall("seek", "record", outcome.record_reads[1], 1, "dropped"),
               DeviceCall("read_exact", "record", outcome.record_reads[1], 1, "dropped")>>

PeekCalls(iterator, entries) ==
    LET outcome == EntryPeek(iterator, entries)
    IN  IF outcome.record_reads = <<>>
        THEN <<>>
        ELSE <<EnterStream(1, "returned"),
               DeviceCall("seek", "record", outcome.record_reads[1], 1, "returned"),
               DeviceCall("read_exact", "record", outcome.record_reads[1], 1, "returned")>>

\* The device calls of advance (table.rs:48-61: none; file.rs:110-126: past the
\* last record of a cluster, with_stream around read_entry, `.map_err(..)?` and
\* the closure's Result returned as the result of advance).
AdvanceCalls(iterator, table, checks) ==
    LET outcome == EntryAdvance(iterator, table, checks)
    IN  IF outcome.table_reads = <<>>
        THEN <<>>
        ELSE <<EnterStream(1, "returned")>> \o ReadEntriesCalls(outcome.table_reads, 1)

\* The device calls of File::seek (file.rs:185-242, 251-310): outside the
\* current cluster, one with_stream around the read_entry of every cluster
\* walked, closed by `.map_err(FileError::DeviceError)??`.
SeekCalls(f, table, pos, async, checks, scope) ==
    LET desired == ResolveDesiredPosition(f, pos, checks)
        relative_position_change == desired.value - f.current_position
        inside_offset == f.current_cluster_offset + relative_position_change
        is_inside_current_cluster ==
            inside_offset >= 0 /\ inside_offset < f.bytes_per_cluster
    IN  IF \/ desired.status # "Ok"
           \/ relative_position_change = 0
           \/ is_inside_current_cluster
        THEN <<>>
        ELSE <<EnterStream(scope, "returned")>>
                 \o ReadEntriesCalls(Seek(f, table, pos, async, checks).reads, scope)

\* File::current_address (file.rs:72-76), from the start of the data region.
CurrentAddress(f) ==
    ((f.current_cluster_number - 2) * f.bytes_per_cluster) + f.current_cluster_offset

\* The device calls of File::read (file.rs:126-146, 155-176): with_stream
\* around a seek and a read, closed by `??`, then the calls of the seek by the
\* size read.
ReadCalls(f, table, target_buffer_length, actual_read_size, async, checks) ==
    LET target == ResolveMaxReadSize(f, target_buffer_length, checks)
    IN  IF target.status # "Ok" \/ target.value = 0
        THEN <<>>
        ELSE <<EnterStream(1, "returned"),
               DeviceCall("seek", "data", CurrentAddress(f), 1, "returned"),
               DeviceCall("read", "data", CurrentAddress(f), 1, "returned")>>
                 \o SeekCalls(f, table, SeekFrom("Current", actual_read_size),
                              async, checks, 2)

\* A fault of the device: the at-th device call issued fails; a failing
\* read_exact fails short (ReadExactError::UnexpectedEof) or with an error of
\* the stream.
DeviceFault(at, short) == [at |-> at, short |-> short]

\* The error a failed call becomes on its way out: with_stream's through
\* map_err(DeviceError), the stream's through From<SE> and From<ReadExactError>
\* (file/error.rs:68-102, allocation_table/error.rs, iterator/error.rs).
FaultError(call, fault) ==
    CASE call.call = "with_stream" -> "DeviceError"
      [] call.call = "read_exact" /\ fault.short -> "StreamEndReached"
      [] OTHER -> "StreamError"

\* The index of the first call after `index` outside the closure of calls[index].
RECURSIVE AfterScope(_, _, _)
AfterScope(calls, index, scope) ==
    IF index > Len(calls) \/ calls[index].scope # scope
    THEN index
    ELSE AfterScope(calls, index + 1, scope)

\* An operation issuing its device calls under a fault: a failed call whose
\* error is returned ends the operation; one whose error is dropped ends its
\* closure only.
RECURSIVE Issue(_, _, _, _)
Issue(calls, index, fault, issued) ==
    IF index > Len(calls)
    THEN [issued |-> issued, returned |-> FALSE, error |-> ""]
    ELSE LET call == calls[index]
             now == Append(issued, call)
         IN  IF Len(now) # fault.at
             THEN Issue(calls, index + 1, fault, now)
             ELSE IF call.handled = "returned"
             THEN [issued |-> now, returned |-> TRUE,
                   error |-> FaultError(call, fault)]
             ELSE Issue(calls, AfterScope(calls, index + 1, call.scope), fault, now)

\* ---------------------------------------------------- I/O faults: behaviour

\* A device fails at most at its MaxFaultAt-th call.
MaxFaultAt == 6

DeviceFaults == {DeviceFault(at, short) : at \in 1 .. MaxFaultAt, short \in BOOLEAN}

FaultyOperations == {"read_entry", "peek", "advance", "read", "seek"}

\* The calls made: read_entry of any cluster, peek, advance, read into a
\* buffer of up to two bytes, seek to any position from the start.
FaultyCall(op, cluster_number, pos, len, fault) ==
    [op |-> op, cluster_number |-> cluster_number, pos |-> pos, len |-> len,
     fault |-> fault]

FaultyCalls ==
    {FaultyCall("read_entry", c, NoSeek, 0, f) : c \in Clusters, f \in DeviceFaults}
        \cup {FaultyCall(op, 2, NoSeek, 0, f) :
                  op \in {"peek", "advance"}, f \in DeviceFaults}
        \cup {FaultyCall("read", 2, NoSeek, len, f) : len \in 0 .. 2, f \in DeviceFaults}
        \cup {FaultyCall("seek", 2, SeekFrom("Start", a), 0, f) :
                  a \in 0 .. MaxFileSize, f \in DeviceFaults}

\* A File somewhere in its chain, an entry iterator freshly made over a
\* directory of either strategy, one operation about to be called with its
\* arguments, and the fault the device will have.
InitFaults ==
    /\ is_async \in BOOLEAN
    /\ overflow_checks = FALSE
    /\ allocation_table \in VolumeTables
    /\ \E position \in 0 .. MaxFileSize :
          file = Seek(NewFile(2, 2, MaxFileSize), allocation_table,
                      SeekFrom("Start", position), FALSE, FALSE).file
    /\ last = Idle(file)
    /\ item_last = ItemIdle
    /\ entry_last = EntryIdle(NoPrevious)
    /\ directory \in EntryRecords(MaxEntryCount)
    /\ entry_iterator \in {NewTableIterator(MaxEntryCount),
                           NewFileIterator(0, DIRECTORY_ENTRY_SIZE, 2)}
    /\ NoDevice
    /\ input \in FaultyCalls
    /\ output = NotApplied

Faulted(calls) == Issue(calls, 1, input.fault, <<>>)

\* read_entry called on the caller's stream.
DoFaultyReadEntry ==
    /\ NotYetApplied
    /\ input.op = "read_entry"
    /\ output' = Applied("read_entry", Faulted(ReadEntryCalls(input.cluster_number, 0)))
    /\ UNCHANGED <<input, fileVars, dirVars, devVars>>

\* peek or peek_async called on the entry iterator.
DoFaultyPeek ==
    /\ NotYetApplied
    /\ input.op = "peek"
    /\ output' = Applied("peek", Faulted(PeekCalls(entry_iterator, directory)))
    /\ UNCHANGED <<input, fileVars, dirVars, devVars>>

\* advance or advance_async called on the entry iterator: the offset moves
\* before the device is used, the cluster after the entry was read.
DoFaultyAdvance ==
    /\ NotYetApplied
    /\ input.op = "advance"
    /\ LET result == Faulted(AdvanceCalls(entry_iterator, allocation_table,
                                          overflow_checks))
           outcome == EntryAdvance(entry_iterator, allocation_table, overflow_checks)
       IN  /\ output' = Applied("advance", result)
           /\ entry_iterator' =
                 IF result.returned
                 THEN [entry_iterator EXCEPT !.current_cluster_offset =
                          entry_iterator.current_cluster_offset + DIRECTORY_ENTRY_SIZE]
                 ELSE outcome.iterator
    /\ UNCHANGED <<input, fileVars, directory, item_last, entry_last, devVars>>

\* read called on the File; the File moves only when no fault was returned.
DoFaultyRead ==
    /\ NotYetApplied
    /\ input.op = "read"
    /\ LET target == ResolveMaxReadSize(file, input.len, overflow_checks)
       IN  \E actual \in 0 .. (IF target.status = "Ok" THEN target.value ELSE 0) :
              LET result == Faulted(ReadCalls(file, allocation_table, input.len,
                                              actual, is_async, overflow_checks))
                  outcome == Read(file, allocation_table, input.len, actual,
                                  is_async, overflow_checks)
              IN  /\ output' = Applied("read", result)
                  /\ file' = IF result.returned THEN file ELSE outcome.file
    /\ UNCHANGED <<input, allocation_table, is_async, overflow_checks, last,
                   dirVars, devVars>>

\* seek called on the File; the File moves only when no fault was returned.
DoFaultySeek ==
    /\ NotYetApplied
    /\ input.op = "seek"
    /\ LET result == Faulted(SeekCalls(file, allocation_table, input.pos,
                                       is_async, overflow_checks, 1))
           outcome == Seek(file, allocation_table, input.pos, is_async,
                           overflow_checks)
       IN  /\ output' = Applied("seek", result)
           /\ file' = IF result.returned THEN file ELSE outcome.file
    /\ UNCHANGED <<input, allocation_table, is_async, overflow_checks, last,
                   dirVars, devVars>>

NextFaults ==
    \/ DoFaultyReadEntry
    \/ DoFaultyPeek
    \/ DoFaultyAdvance
    \/ DoFaultyRead
    \/ DoFaultySeek

SpecFaults == InitFaults /\ [][NextFaults]_vars

\* ------------------------------------------- directory records: classification

\* The bytes of a 32-byte record that DirectoryEntry::from_bytes and the two
\* parsers it hands the record to look at: byte 0, byte 11 (the attributes) and
\* the first of the thirteen code units a LongName record holds.
RecordBytes(first_byte, attributes, first_unit) ==
    [first_byte |-> first_byte, attributes |-> attributes, first_unit |-> first_unit]

\* What from_bytes makes of a record: the variant it is taken as, and the
\* result of parsing it as that variant.
Classified(status, variant, error) ==
    [status |-> status, variant |-> variant, error |-> error]

\* LONG_NAME_MAX_ENTRY_COUNT (long_name.rs:11-12): 255.div_ceil(13).
LONG_NAME_MAX_ENTRY_COUNT ==
    (LONG_NAME_MAX_LENGTH + LONG_NAME_CHARACTERS_PER_ENTRY - 1)
        \div LONG_NAME_CHARACTERS_PER_ENTRY

\* Ucs2Character::from_u16 (ucs2_character.rs:17-24) is Some.
IsUcs2(value) == ~(value >= 55296 /\ value <= 57343)

\* LongNameDirectoryEntry::from_bytes (long_name.rs:23-55).
LongNameFromBytes(data) ==
    IF ~((data.first_byte % 64) \in 1 .. LONG_NAME_MAX_ENTRY_COUNT)
    THEN Classified("Err", "LongName", "EntryNumberInvalid")
    ELSE IF ~IsUcs2(data.first_unit)
    THEN Classified("Err", "LongName", "NameCharacterInvalid")
    ELSE Classified("Ok", "LongName", "")

\* DirectoryEntry::from_bytes (directory_entry.rs:31-43). `bytes[11] & 0x0F > 0`
\* is (bytes[11] & 0x0F) > 0: `&` binds tighter than `>`.
DirectoryEntryFromBytes(data) ==
    IF data.first_byte = 0
    THEN Classified("Ok", "AllFollowing", "")
    ELSE IF data.first_byte = 229
    THEN Classified("Ok", "CurrentOnly", "")
    ELSE IF data.attributes % 16 > 0
    THEN LongNameFromBytes(data)
    ELSE Classified("Ok", "ShortName", "")

\* First bytes: the two free marks, 0x05, 'A', 'F', '.', and 0x55 whose low six
\* bits are above the largest sequence number.
FirstBytes == {0, 229, 5, 65, 70, 46, 85}

\* Attribute bytes: every combination of ReadOnly, Hidden, System, VolumeId,
\* Subdirectory and Archive.
AttributeBytes == 0 .. 63

\* Any record about to be classified.
InitClassify ==
    /\ is_async = FALSE
    /\ overflow_checks = FALSE
    /\ input \in {RecordBytes(b, a, u) :
                     b \in FirstBytes, a \in AttributeBytes, u \in {65, 55296}}
    /\ output = NotApplied
    /\ NoFile
    /\ NoDirectory
    /\ NoDevice

DoDirectoryEntryFromBytes ==
    /\ NotYetApplied
    /\ output' = Applied("from_bytes", DirectoryEntryFromBytes(input))
    /\ UNCHANGED <<input, fileVars, dirVars, devVars>>

NextClassify == DoDirectoryEntryFromBytes

SpecClassify == InitClassify /\ [][NextClassify]_vars

\* --------------------------------------------- open on cyclic directories

\* The records of the clusters of a directory that may go round in a cycle:
\* those of ClusterRecords, and a file named FOO, which no path looked up in
\* the directory names.
CycleRecords == ClusterRecords \cup {ShortNameEntry(Foo, FALSE, 0)}

\* A FileSystem on a volume with any root directory table, any of these
\* records in the clusters and any of the allocation tables of VolumeTables,
\* those with a cluster chained to itself or to the cluster before it included.
InitCycle ==
    /\ is_async \in BOOLEAN
    /\ overflow_checks = FALSE
    /\ allocation_table \in VolumeTables
    /\ file = NewFile(2, LastCluster, 0)
    /\ last = Idle(file)
    /\ \E root \in [1 .. RootEntryCount -> RootRecords],
          clusters \in [1 .. (LastCluster - 1) -> CycleRecords] :
          directory = root \o clusters
    /\ entry_iterator = NewTableIterator(RootEntryCount)
    /\ item_last = ItemIdle
    /\ entry_last = EntryIdle(NoPrevious)
    /\ NoDevice
    /\ NoFunction

SpecCycle == InitCycle /\ [][NextVolume]_vars

\* ------------------------------------------------ boot sector: large volumes

\* Boot sectors of FAT32 volumes: 600,000 to 300,000,000 sectors, or 100
\* sectors only, in clusters of 1, 8 or 128 sectors, with allocation tables of
\* 1,024, of 300,000 or of 2,400,000 sectors.
LargeBootSectors ==
    [bytes_per_sector : {512},
     sectors_per_cluster : {1, 8, 128},
     reserved_sector_count : {1, 32},
     allocation_table_count : {1, 2},
     root_directory_entry_count : {0},
     total_sector_count_16bit : {0},
     media_type : {248},
     sectors_per_allocation_table_16bit : {0},
     total_sector_count_32bit : {100, 600000, 273200001, 300000000},
     sectors_per_allocation_table_32bit : {1024, 300000, 2400000},
     ext_flags : {0},
     filesystem_version : {0},
     root_directory_file_cluster_number : {2},
     fs_info_sector_index : {1},
     signature : {<<85, 170>>}]

\* Any of these boot sectors or any of BootSectorFields that has sector counts,
\* about to be parsed by a build of either kind.
InitLargeVolume ==
    /\ is_async = FALSE
    /\ overflow_checks \in BOOLEAN
    /\ input \in LargeBootSectors
                    \cup {bytes \in BootSectorFields :
                             /\ bytes.bytes_per_sector = 512
                             /\ bytes.reserved_sector_count = 1
                             /\ bytes.allocation_table_count = 2
                             /\ bytes.media_type = 248
                             /\ bytes.ext_flags = 0
                             /\ bytes.filesystem_version = 0
                             /\ bytes.root_directory_file_cluster_number = 2
                             /\ bytes.fs_info_sector_index = 1}
    /\ output = NotApplied
    /\ NoFile
    /\ NoDirectory
    /\ NoDevice

SpecLargeVolume == InitLargeVolume /\ [][NextBootSector]_vars

\* ------------------------------------------------ boot sector: the regions

\* BiosParameterBlock::directory_table_base_address
\* (bios_parameter_block.rs:211-216).
DirectoryTableBaseAddress(block) ==
    AllocationTableBaseAddress(block)
        + (block.bytes_per_sector * block.sectors_per_allocation_table
              * block.allocation_table_count)

\* BiosParameterBlock::data_region_base_address
\* (bios_parameter_block.rs:222-225).
DataRegionBaseAddress(block) ==
    DirectoryTableBaseAddress(block)
        + (block.root_directory_entry_count * DIRECTORY_ENTRY_SIZE)

\* Boot sectors of FAT12 and FAT16 volumes whose root directory table has 8,
\* 16, 24 or 1337 records.
RootTableBootSectors ==
    [bytes_per_sector : {512, 1024},
     sectors_per_cluster : {1, 8},
     reserved_sector_count : {1, 7},
     allocation_table_count : {2, 3},
     root_directory_entry_count : {8, 16, 24, 1337},
     total_sector_count_16bit : {504, 20000},
     media_type : {248},
     sectors_per_allocation_table_16bit : {1, 128},
     total_sector_count_32bit : {0},
     sectors_per_allocation_table_32bit : {0},
     ext_flags : {0},
     filesystem_version : {0},
     root_directory_file_cluster_number : {0},
     fs_info_sector_index : {0},
     signature : {<<85, 170>>}]

InitRootTable ==
    /\ is_async = FALSE
    /\ overflow_checks \in BOOLEAN
    /\ input \in RootTableBootSectors
    /\ output = NotApplied
    /\ NoFile
    /\ NoDirectory
    /\ NoDevice

SpecRootTable == InitRootTable /\ [][NextBootSector]_vars

\* ------------------------------------------------------- addresses: model

\* An address as computed: status "Ok" with the value, "Panic" when a build
\* with overflow checks stops at a subtraction, multiplication or addition
\* that leaves its width, "Wrapped" when a build without them goes on with the
\* wrapped value.
Addressed(status, value) == [status |-> status, value |-> value]

\* File::current_address (file.rs:72-76). The subtraction is one of u32, the
\* product and the sums are of u64. Of a wrapped address `value` is the part
\* below the 2^32 x bytes_per_cluster that the wrap adds.
FileAddress(base_address, bytes_per_cluster, cluster_number, offset, checks) ==
    LET clusters == cluster_number - 2
        address == base_address + (clusters * bytes_per_cluster) + offset
    IN  IF clusters >= 0
        THEN Addressed("Ok", address)
        ELSE IF checks
        THEN Addressed("Panic", 0)
        ELSE Addressed("Wrapped", address)

\* The u32 addresses of the entry iterator are counted in records of 32 bytes:
\* the base address of the data region, the size of a cluster and the offset
\* of the iterator are multiples of 32. 2^32 bytes are 2^27 records.
U32Records == 2 ^ 27

\* DirectoryFileEntryIterator::current_address (file.rs:49-53), all of it in
\* u32: the subtraction, the product and the two sums.
IteratorAddress(base_records, records_per_cluster, cluster_number, offset_records, checks) ==
    LET clusters == cluster_number - 2
        period == U32Records \div records_per_cluster
        product_wraps == clusters > (U32Records - 1) \div records_per_cluster
        product == (clusters % period) * records_per_cluster
        sum == base_records + product + offset_records
        wraps == clusters < 0 \/ product_wraps \/ sum >= U32Records
    IN  IF ~wraps
        THEN Addressed("Ok", sum)
        ELSE IF checks
        THEN Addressed("Panic", 0)
        ELSE Addressed("Wrapped", sum % U32Records)

\* The first cluster number whose Fat32 entry offset, cluster_number * 4, leaves
\* the u32.
FirstWrappingCluster == 2 ^ 30

\* AllocationTable::resolve_entry_address (allocation_table.rs:96-108) with the
\* width of its u32 product, for cluster numbers up to FirstWrappingCluster.
EntryAddress(kind, base_address, cluster_number, checks) ==
    IF ~(kind = "Fat32" /\ cluster_number >= FirstWrappingCluster)
    THEN Addressed("Ok", ResolveEntryAddress(kind, base_address, cluster_number).address)
    ELSE IF checks
    THEN Addressed("Panic", 0)
    ELSE Addressed("Wrapped",
                   ResolveEntryAddress(kind, base_address,
                                       cluster_number - FirstWrappingCluster).address)

\* --------------------------------------------------- addresses: behaviour

\* The cluster numbers a ShortName record can hold in its bytes 20-21 and
\* 26-27, or an accepted volume can have: 0 (an empty file, the parent of a
\* directory of the root), 1, the first data clusters, the last cluster of a
\* volume of 8 GiB in clusters of 4 KiB, and the last of the largest volume
\* of LargeBootSectors.
SuppliedClusters == {0, 1, 2, 3, 500000, 2097153, 295200000}

\* Clusters of one sector of 512 bytes and of eight.
ClusterSizes == {512, 4096}

\* A data region that starts after 32 sectors of 512 bytes.
DataRegionBase == 32 * 512

AddressCall(op, kind, bytes_per_cluster, cluster_number, offset) ==
    [op |-> op, kind |-> kind, bytes_per_cluster |-> bytes_per_cluster,
     cluster_number |-> cluster_number, offset |-> offset]

\* The calls: the address of a File's cursor, of an entry iterator, and of an
\* entry of the allocation table.
AddressCalls ==
    {AddressCall("file", "Fat32", b, c, o) :
        b \in ClusterSizes, c \in SuppliedClusters \ {2097153, 295200000},
        o \in {0, 1, 511}}
        \cup {AddressCall("iterator", "Fat32", b, c, o) :
                 b \in ClusterSizes, c \in SuppliedClusters, o \in {0, 32, 480}}
        \cup {AddressCall("table", kind, 512, c, 0) :
                 kind \in AllocationTableKinds \ {"Fat32"}, c \in 0 .. 3}
        \cup {AddressCall("table", "Fat32", 512, c, 0) :
                 c \in SuppliedClusters \cup {268435446, FirstWrappingCluster}}

InitAddress ==
    /\ is_async = FALSE
    /\ overflow_checks \in BOOLEAN
    /\ input \in AddressCalls
    /\ output = NotApplied
    /\ NoFile
    /\ NoDirectory
    /\ NoDevice

\* A File computes the address it reads at.
DoFileAddress ==
    /\ NotYetApplied
    /\ input.op = "file"
    /\ output' = Applied("file",
                         FileAddress(DataRegionBase, input.bytes_per_cluster,
                                     input.cluster_number, input.offset,
                                     overflow_checks))
    /\ UNCHANGED <<input, fileVars, dirVars, devVars>>

\* An entry iterator over a directory file computes the address it peeks at.
DoIteratorAddress ==
    /\ NotYetApplied
    /\ input.op = "iterator"
    /\ output' = Applied("iterator",
                         IteratorAddress(DataRegionBase \div DIRECTORY_ENTRY_SIZE,
                                         input.bytes_per_cluster \div DIRECTORY_ENTRY_SIZE,
                                         input.cluster_number,
                                         input.offset \div DIRECTORY_ENTRY_SIZE,
                                         overflow_checks))
    /\ UNCHANGED <<input, fileVars, dirVars, devVars>>

\* The allocation table computes the address of an entry.
DoEntryAddress ==
    /\ NotYetApplied
    /\ input.op = "table"
    /\ output' = Applied("table",
                         EntryAddress(input.kind, input.bytes_per_cluster,
                                      input.cluster_number, overflow_checks))
    /\ UNCHANGED <<input, fileVars, dirVars, devVars>>

NextAddress == DoFileAddress \/ DoIteratorAddress \/ DoEntryAddress

SpecAddress == InitAddress /\ [][NextAddress]_vars

\* ------------------------------------------------ item builder: behaviour

\* The 13 code units of a LongName record: thirteen characters, or a name of
\* 0, 1, 7 or 8 characters with its terminator and padding. In record 20 a
\* terminator after 7 characters is the unit of index 254 of the name, and
\* one after 8 characters that of index 255.
BuilderCharacters ==
    {FullStride} \cup {Terminated(SubSeq(FullStride, 1, n)) : n \in {0, 1, 7, 8}}

\* The LongName records LongNameDirectoryEntry::from_bytes lets through
\* (long_name.rs:23-55): an entry number in 1 ..= LONG_NAME_MAX_ENTRY_COUNT,
\* with or without the mark of the last entry, and either of two checksums.
BuilderEntries ==
    {LongNameDirectoryEntry(number + 64 * mark, 0, characters) :
        number \in 1 .. LONG_NAME_MAX_ENTRY_COUNT, mark \in {0, 1},
        characters \in BuilderCharacters}
    \cup {LongNameDirectoryEntry(number + 64 * mark, 1, FullStride) :
             number \in 1 .. LONG_NAME_MAX_ENTRY_COUNT, mark \in {0, 1}}

\* What a call of add_long_name_entry leaves to look at: the record and the
\* result; the builder it returns is the one the next record is added to.
BuilderCall(entry, result) ==
    [entry |-> entry,
     status |-> result.status,
     error |-> IF result.status = "Err" THEN result.error ELSE "None"]

\* A builder as DirectoryItemIterator::next makes it
\* (directory_item/iterator.rs:55).
InitBuilder ==
    /\ is_async = FALSE
    /\ overflow_checks = FALSE
    /\ input = NewBuilder
    /\ output = NotApplied
    /\ NoFile
    /\ NoDirectory
    /\ NoDevice

\* One more LongName record is added to the builder. The call consumes the
\* builder: after an error the next record goes to a new one.
DoAddLongNameEntry ==
    \E entry \in BuilderEntries :
        LET result == AddLongNameEntry(input, entry)
        IN  /\ output' = Applied("add_long_name_entry",
                                 BuilderCall(entry, result))
            /\ input' = IF result.status = "Ok" THEN result.value ELSE NewBuilder
            /\ UNCHANGED <<fileVars, dirVars, devVars>>

NextBuilder == DoAddLongNameEntry

SpecBuilder == InitBuilder /\ [][NextBuilder]_vars

\* ---------------------------------------------------------- File: properties

\* The cluster reached by following `links` links of the chain from `cluster`,
\* or 0 when the chain holds no such cluster.
RECURSIVE ClusterAfter(_, _, _)
ClusterAfter(table, cluster, links) ==
    IF links = 0
    THEN cluster
    ELSE IF table[cluster].kind = "NextClusterNumber"
         THEN ClusterAfter(table, table[cluster].n, links - 1)
         ELSE 0

UnexpectedKinds == {"Free", "Reserved", "BadSector"}

\* A read returned n > 0 bytes that end exactly on the boundary of the cluster
\* the cursor was in, bytes of the file remain, and the chain goes on.
ReadEndedOnBoundary ==
    /\ last.op = "read"
    /\ last.result.status = "Ok"
    /\ last.result.value > 0
    /\ last.before.current_cluster_offset + last.result.value
          = last.before.bytes_per_cluster
    /\ last.before.current_position + last.result.value < last.before.file_size
    /\ allocation_table[last.before.current_cluster_number].kind = "NextClusterNumber"

\* C1: after a successful read of n > 0 bytes that ends exactly on a cluster
\* boundary while bytes of the file remain, the cursor is at offset 0 of the
\* successor cluster recorded in the allocation table.
C1_ReadFollowsChainAtBoundary ==
    ReadEndedOnBoundary =>
        /\ file.current_cluster_number
              = allocation_table[last.before.current_cluster_number].n
        /\ file.current_cluster_offset = 0

\* C2: whenever the cursor stands at a position p below file_size and within
\* the capacity of the chain, whatever seeks and reads led there, it addresses
\* the cluster floor(p / bytes_per_cluster) links after first_cluster_number at
\* offset p mod bytes_per_cluster.
C2_CursorAddressesPosition ==
    LET p == file.current_position
        target == ClusterAfter(allocation_table, file.first_cluster_number,
                               p \div file.bytes_per_cluster)
    IN  (last.result.status = "Ok" /\ p < file.file_size /\ target # 0) =>
            /\ file.current_cluster_number = target
            /\ file.current_cluster_offset = p % file.bytes_per_cluster

\* C3: a successful read transfers at most min(buf.len(), file_size -
\* current_position, bytes_per_cluster - current_cluster_offset) bytes, all of
\* them inside the current cluster and none of them past file_size.
C3_ReadStaysInClusterAndFile ==
    (last.op = "read" /\ last.result.status = "Ok") =>
        /\ last.result.value <= last.len
        /\ last.before.current_cluster_offset + last.result.value
              <= last.before.bytes_per_cluster
        /\ last.result.value > 0 =>
              last.before.current_position + last.result.value
                  <= last.before.file_size

\* A seek succeeded whose target lies inside the cluster the cursor was in.
SeekInsideCurrentCluster ==
    /\ last.op = "seek"
    /\ last.result.status = "Ok"
    /\ LET offset == last.before.current_cluster_offset
                        + (last.result.value - last.before.current_position)
       IN  offset >= 0 /\ offset < last.before.bytes_per_cluster

\* C4: the cursor makes one allocation-table lookup per cluster boundary
\* crossed: a seek inside the current cluster makes none and issues no device
\* I/O, a read that ends exactly on a cluster boundary with bytes remaining
\* makes exactly one, and a read that ends before the boundary makes none.
C4_OneLookupPerBoundary ==
    /\ SeekInsideCurrentCluster => (last.reads = <<>> /\ last.data_reads = 0)
    /\ ReadEndedOnBoundary => Len(last.reads) = 1
    /\ (/\ last.op = "read"
        /\ last.result.status = "Ok"
        /\ last.before.current_cluster_offset + last.result.value
              < last.before.bytes_per_cluster) => last.reads = <<>>

\* The walk of the last call read an entry that is Free, Reserved or BadSector.
WalkReadUnexpectedEntry ==
    \E i \in 1 .. Len(last.reads) :
        allocation_table[last.reads[i]].kind \in UnexpectedKinds

\* C5: a chain walk of File::seek that reads a Free, Reserved or BadSector
\* entry makes the call fail with UnexpectedAllocationTableEntryEncountered.
C5_UnexpectedEntryFailsSeek ==
    WalkReadUnexpectedEntry =>
        /\ last.result.status = "Err"
        /\ last.result.error = "UnexpectedAllocationTableEntryEncountered"

\* C5 witness: a seek walked the chain, read such an entry and failed.
C5_Witness ==
    /\ last.op = "seek"
    /\ WalkReadUnexpectedEntry
    /\ last.result.error = "UnexpectedAllocationTableEntryEncountered"

\* The exact sum a relative seek asks for: the base (current_position or
\* file_size) plus the offset, over the integers.
RelativeTarget ==
    (IF last.arg.from = "Current"
     THEN last.before.current_position
     ELSE last.before.file_size) + last.arg.offset

\* C6: a seek from Current or End fails with SeekPositionImpossible whenever
\* base + offset is negative or overflows i64, and with
\* SeekPositionBeyondLimits whenever the sum does not fit the 32-bit position;
\* the computation neither panics nor wraps.
C6_RelativeSeekRangeChecked ==
    (last.op = "seek" /\ last.arg.from \in {"Current", "End"}) =>
        /\ last.result.status # "Panic"
        /\ (RelativeTarget < 0 \/ RelativeTarget > I64Max) =>
              (/\ last.result.status = "Err"
               /\ last.result.error = "SeekPositionImpossible")
        /\ (RelativeTarget >= 0 /\ RelativeTarget <= I64Max
               /\ RelativeTarget > U32Max) =>
              (/\ last.result.status = "Err"
               /\ last.result.error = "SeekPositionBeyondLimits")

\* ------------------------------------------------------ directory: properties

\* The variants of DirectoryItemError (directory_item/error.rs:6-15).
DirectoryItemErrors ==
    {"LongNameCorrupted", "LongNameEntryNumberWrong", "LongNameEmpty",
     "LongNameFirstEntryInvalid", "LongNameOrphaned",
     "LongNameShortNameChecksumInconsistent", "LongNameTooLong",
     "ShortNameChecksumMismatch"}

\* The entry stored in a slot of the directory (slots count from 0).
EntryAt(slot) == directory[slot + 1]

\* The last call of next emitted a DirectoryItem.
ItemEmitted ==
    /\ item_last.op = "next"
    /\ item_last.returned.status = "Ok"

\* The slots short_slot - n .. short_slot - 1 hold a well-formed LongName chain of
\* n entries for the ShortName entry in short_slot: the first carries the is-last
\* flag and the number n, the others follow with n-1 down to 1 and without the
\* flag, and each carries the checksum computed from the short name.
WellFormedChain(short_slot, n) ==
    /\ n >= 1
    /\ short_slot >= n
    /\ \A k \in 1 .. n :
          LET entry == EntryAt(short_slot - n + k - 1)
          IN  /\ entry.tag = "LongName"
              /\ EntryNumber(entry) = n - k + 1
              /\ IsLastEntry(entry) <=> (k = 1)
              /\ entry.short_name_checksum = Checksum(EntryAt(short_slot).name)

\* C7: every DirectoryItem emitted with a long name carries the ShortName entry
\* of some slot, and the slots right before it hold a chain of N >= 1 LongName
\* entries: the first with the is-last flag and number N, then N-1 .. 1 without
\* the flag, all with the checksum computed from that ShortName entry; the
\* builder accepted exactly these entries.
C7_LongNameFromWellFormedChain ==
    (ItemEmitted /\ item_last.returned.item.long_name.is_some) =>
        LET short_slot == item_last.returned.slot
            chain == item_last.returned.chain
        IN  /\ short_slot < Len(directory)
            /\ EntryAt(short_slot).tag = "ShortName"
            /\ item_last.returned.item.short_directory_entry = EntryAt(short_slot)
            /\ WellFormedChain(short_slot, Len(chain))
            /\ \A k \in 1 .. Len(chain) : chain[k] = short_slot - Len(chain) + k - 1

\* An item with a long name was emitted from a chain of two LongName entries.
C7_Witness ==
    /\ ItemEmitted
    /\ item_last.returned.item.long_name.is_some
    /\ Len(item_last.returned.chain) = 2

\* C8: an item emitted for a ShortName entry that ends a LongName chain (the slot
\* before it holds a LongName entry) carries a long name, that is, the chain
\* passed validation; no item is emitted for the ShortName entry of a chain that
\* failed it.
C8_NoItemAfterFailedChain ==
    (/\ ItemEmitted
     /\ item_last.returned.slot > 0
     /\ EntryAt(item_last.returned.slot - 1).tag = "LongName")
        => item_last.returned.item.long_name.is_some

\* C9: when next returns a DirectoryItemError, the entry iterator stands past the
\* entry the call was looking at, unless the error is LongNameOrphaned, and then
\* it stands on that entry.
C9_AdvancedUnlessOrphaned ==
    (/\ item_last.op = "next"
     /\ item_last.returned.status = "Err"
     /\ item_last.returned.error \in DirectoryItemErrors)
        => IF item_last.returned.error = "LongNameOrphaned"
           THEN Slot(entry_iterator) = item_last.returned.slot
           ELSE Slot(entry_iterator) > item_last.returned.slot

\* A Free::AllFollowing marker is stored in a slot before `slot`.
MarkerBefore(slot) ==
    \E k \in 0 .. (slot - 1) : EntryAt(k) = AllFollowing

\* C10: the item iterator emits no item for a ShortName entry stored after a
\* Free::AllFollowing marker.
C10_NoItemAfterMarker ==
    ItemEmitted => ~MarkerBefore(item_last.returned.slot)

\* C10, path lookup: find_item returns no item whose ShortName entry is stored
\* after a Free::AllFollowing marker.
C10_NoMatchAfterMarker ==
    (item_last.op = "find_item" /\ item_last.found.status = "Some")
        => ~MarkerBefore(item_last.found.slot)

\* The directory holds the well-formed chain of `name` and its ShortName entry,
\* and the first call of next on it has returned.
ChainIterated(name) ==
    /\ item_last.op = "next"
    /\ item_last.before = NewTableIterator(Len(directory))
    /\ Len(directory) = ChainEntryCount(Len(name)) + 1
    /\ directory = ChainDirectory(name, FooTxt)

\* The call returned an item whose long name is `name`: the name buffer holds its
\* code units and null after them.
ReturnedLongName(name) ==
    /\ item_last.returned.status = "Ok"
    /\ item_last.returned.item.short_directory_entry = ShortNameDirectoryEntry(FooTxt)
    /\ item_last.returned.item.long_name.is_some
    /\ \A i \in 0 .. (LONG_NAME_MAX_LENGTH - 1) :
          item_last.returned.item.long_name.value[i] =
              IF i < Len(name) THEN name[i + 1] ELSE NullCharacter

\* C11: for every name of 1 to 255 code units, next on the well-formed chain that
\* holds it, followed by its ShortName entry, returns a DirectoryItem whose long
\* name equals the name.
C11_WellFormedChainAccepted ==
    \A length \in NameLengths, first \in FirstCharacters :
        ChainIterated(NameOf(length, first)) => ReturnedLongName(NameOf(length, first))

\* The same for the names of fewer than 255 code units.
C11_ShorterNamesAccepted ==
    \A length \in NameLengths \ {LONG_NAME_MAX_LENGTH}, first \in FirstCharacters :
        ChainIterated(NameOf(length, first)) => ReturnedLongName(NameOf(length, first))

\* The first call of next on the directory has returned.
FirstNextReturned ==
    /\ item_last.op = "next"
    /\ item_last.before = NewTableIterator(Len(directory))

\* The slots of the directory that hold LongName entries.
LongNameSlots == {slot \in 0 .. (Len(directory) - 1) : EntryAt(slot).tag = "LongName"}

\* The code units of the entry in `slot` that may follow a null code unit of it
\* are those of `allowed`, and a null code unit occurs only in the first entry
\* of the directory and not as its first code unit.
TerminatorPlaced(slot, allowed) ==
    \A i \in 1 .. LONG_NAME_CHARACTERS_PER_ENTRY :
        EntryAt(slot).ucs2_characters[i] = NullCharacter =>
            /\ slot = 0
            /\ i # 1
            /\ \A j \in (i + 1) .. LONG_NAME_CHARACTERS_PER_ENTRY :
                  EntryAt(slot).ucs2_characters[j] \in allowed

\* C12: a chain is accepted (next emits the item with its long name) only if a
\* null terminator occurs in the first entry seen alone, not as its first code
\* unit, and with 0xFFFF in every code unit after it; a chain with a null
\* terminator placed otherwise, or with another value after it, is rejected with
\* a DirectoryItemError.
C12_TerminatorPlacement ==
    FirstNextReturned =>
        IF \A slot \in LongNameSlots : TerminatorPlaced(slot, {LONG_NAME_PADDING_CHARACTER})
        THEN TRUE
        ELSE /\ item_last.returned.status = "Err"
             /\ item_last.returned.error \in DirectoryItemErrors

\* What holds instead: after the terminator the accepted chains hold 0xFFFF or
\* further null code units.
C12_TerminatorThenNullOrPadding ==
    FirstNextReturned =>
        IF \A slot \in LongNameSlots :
               TerminatorPlaced(slot, {LONG_NAME_PADDING_CHARACTER, NullCharacter})
        THEN item_last.returned.status = "Ok"
        ELSE /\ item_last.returned.status = "Err"
             /\ item_last.returned.error \in DirectoryItemErrors

\* The last call of next met the ShortName entry of a slot with no LongName entry
\* accepted before it: no chain was pending.
ShortNameWithoutChain ==
    /\ item_last.op = "next"
    /\ item_last.returned.slot < Len(directory)
    /\ EntryAt(item_last.returned.slot).tag = "ShortName"
    /\ item_last.returned.chain = <<>>

\* C13: a ShortName entry met while no LongName chain is pending is emitted as a
\* DirectoryItem that carries this entry and long_name None, and the entry
\* iterator stands on the slot after it.
C13_ShortNameAloneEmitted ==
    ShortNameWithoutChain =>
        /\ item_last.returned.status = "Ok"
        /\ ~item_last.returned.item.long_name.is_some
        /\ item_last.returned.item.short_directory_entry
               = EntryAt(item_last.returned.slot)
        /\ Slot(entry_iterator) = item_last.returned.slot + 1

\* A ShortName entry without chain was emitted after a skipped Free entry, with
\* entries left in the directory.
C13_Witness ==
    /\ ShortNameWithoutChain
    /\ item_last.returned.status = "Ok"
    /\ item_last.returned.slot > 0
    /\ entry_iterator.current_entry_index.is_some

\* -------------------------------------------------- entry iterator: properties

\* The last call was an advance of the cluster-chain iterator.
FileAdvanced == entry_last.op = "advance" /\ ~IsTableIterator(entry_last.before)

\* ... from a slot of the cluster to another slot of it.
AdvancedWithinCluster ==
    /\ FileAdvanced
    /\ entry_last.before.current_cluster_offset + DIRECTORY_ENTRY_SIZE
           < entry_last.before.bytes_per_cluster

\* ... from the last slot of the cluster.
AdvancedPastLastSlot ==
    /\ FileAdvanced
    /\ entry_last.before.current_cluster_offset < entry_last.before.bytes_per_cluster
    /\ entry_last.before.current_cluster_offset + DIRECTORY_ENTRY_SIZE
           >= entry_last.before.bytes_per_cluster

\* The allocation-table entry of the cluster the iterator stood in.
EntryOfCurrentCluster == allocation_table[entry_last.before.current_cluster_number]

\* C14: an advance of the cluster-chain iterator from the last slot of a cluster
\* reads the allocation-table entry of that cluster, once, and nothing else, and
\* the entry decides: NextClusterNumber(n) puts the iterator at offset 0 of
\* cluster n and returns true, EndOfFile returns false, Free, BadSector and
\* Reserved fail with AllocationTableEntryTypeUnexpected; an advance to another
\* slot of the same cluster reads nothing and returns true.
C14_ClusterAdvanceFollowsTable ==
    /\ AdvancedPastLastSlot =>
          /\ entry_last.outcome.table_reads = <<entry_last.before.current_cluster_number>>
          /\ entry_last.outcome.record_reads = <<>>
          /\ EntryOfCurrentCluster.kind = "NextClusterNumber" =>
                /\ entry_last.outcome.status = "Ok"
                /\ entry_last.outcome.advanced
                /\ entry_iterator.current_cluster_number = EntryOfCurrentCluster.n
                /\ entry_iterator.current_cluster_offset = 0
          /\ EntryOfCurrentCluster.kind = "EndOfFile" =>
                /\ entry_last.outcome.status = "Ok"
                /\ ~entry_last.outcome.advanced
          /\ EntryOfCurrentCluster.kind \in {"Free", "BadSector", "Reserved"} =>
                /\ entry_last.outcome.status = "Err"
                /\ entry_last.outcome.error = "AllocationTableEntryTypeUnexpected"
    /\ AdvancedWithinCluster =>
          /\ entry_last.outcome.table_reads = <<>>
          /\ entry_last.outcome.record_reads = <<>>
          /\ entry_last.outcome.status = "Ok"
          /\ entry_last.outcome.advanced
          /\ entry_iterator.current_cluster_number = entry_last.before.current_cluster_number

\* The iterator left the second slot of a cluster whose entry is EndOfFile,
\* after it had followed the chain into that cluster.
C14_Witness ==
    /\ AdvancedPastLastSlot
    /\ EntryOfCurrentCluster.kind = "EndOfFile"
    /\ entry_last.before.current_cluster_offset > 0
    /\ entry_last.before.current_cluster_number # LastCluster
    /\ ~entry_last.outcome.advanced

\* The last call and the call before it were both peeks.
PeekedAgain == entry_last.op = "peek" /\ entry_last.previous.op = "peek"

\* The last call was an advance that followed a peek of a record that does not
\* decode.
AdvancedAfterFailedPeek ==
    /\ entry_last.op = "advance"
    /\ entry_last.previous.op = "peek"
    /\ entry_last.previous.status = "SomeErr"

\* The iterator stands where it stood before the last call.
PositionUnchanged == entry_iterator = entry_last.before

\* The chain of a directory file leads from the cluster the iterator stood in
\* back to the first slot of that same cluster.
ChainReturnsToSlot ==
    /\ ~IsTableIterator(entry_last.before)
    /\ entry_last.before.current_cluster_offset = 0
    /\ EntryOfCurrentCluster = NextClusterNumber(entry_last.before.current_cluster_number)

\* C15: on either strategy a peek leaves the iterator where it was, a peek that
\* follows a peek returns what that one returned, an entry or an error alike,
\* and an advance that follows a peek of a malformed record moves the iterator
\* off that record.
C15_PeekDoesNotConsume ==
    /\ entry_last.op = "peek" => PositionUnchanged
    /\ PeekedAgain =>
          /\ entry_last.outcome.status = entry_last.previous.status
          /\ entry_last.outcome.entry = entry_last.previous.entry
          /\ entry_last.outcome.error = entry_last.previous.error
    /\ AdvancedAfterFailedPeek => ~PositionUnchanged \/ ChainReturnsToSlot

\* A second peek of a malformed record in the second cluster of a directory file.
C15_Witness ==
    /\ PeekedAgain
    /\ entry_last.outcome.status = "SomeErr"
    /\ ~IsTableIterator(entry_last.before)
    /\ entry_last.before.current_cluster_number # LastCluster

\* The last call was made on a table iterator.
OnTable == entry_last.op # "idle" /\ IsTableIterator(entry_last.before)

\* C16: on a table of entry_count slots, advance touches no device and returns
\* true exactly when the index after the current one is below entry_count; next
\* yields the record of the current slot and moves one slot on; and once the
\* index has reached entry_count, peek and next return None, advance returns
\* false, and the iterator stays there.
C16_TableYieldsEntryCount ==
    OnTable =>
       /\ entry_last.op = "advance" =>
             /\ entry_last.outcome.table_reads = <<>>
             /\ entry_last.outcome.record_reads = <<>>
             /\ entry_last.outcome.status = "Ok"
             /\ entry_last.outcome.advanced <=>
                   /\ entry_last.before.current_entry_index.is_some
                   /\ entry_last.before.current_entry_index.value + 1
                          < entry_last.before.entry_count
       /\ (entry_last.op = "next" /\ Slot(entry_last.before) < Len(directory)) =>
             /\ entry_last.outcome.status \in {"Some", "SomeErr"}
             /\ entry_last.outcome.entry = directory[Slot(entry_last.before) + 1]
             /\ Slot(entry_iterator) = Slot(entry_last.before) + 1
       /\ Slot(entry_last.before) = entry_last.before.entry_count =>
             /\ entry_last.op \in {"peek", "next"} => entry_last.outcome.status = "None"
             /\ entry_last.op = "advance" => ~entry_last.outcome.advanced
             /\ PositionUnchanged
       /\ Slot(entry_iterator) <= entry_last.before.entry_count

\* An advance at the end of a full table, after a next that returned None.
C16_Witness ==
    /\ OnTable
    /\ entry_last.op = "advance"
    /\ entry_last.before.entry_count = MaxEntryCount
    /\ ~entry_last.before.current_entry_index.is_some
    /\ entry_last.previous.op = "next"
    /\ entry_last.previous.status = "None"

\* ---------------------------------------------------------- device: properties

\* C17: at most one scope of a SingleAccessDevice is active, and the RefCell is
\* borrowed exactly while one is; a with_stream or flush asked for while another
\* task's scope is active has returned StreamInUse by the end of that very step,
\* and no closure of it ran; every other operation returns Ok, after all its
\* seeks and reads.
C17_OneScopeAtATime ==
    /\ Cardinality({t \in Tasks : InScope(t)}) <= 1
    /\ stream.borrowed <=> \E t \in Tasks : InScope(t)
    /\ \A t \in Tasks :
          /\ tasks[t].contended =>
                /\ tasks[t].pc = "done"
                /\ tasks[t].result = "StreamInUse"
                /\ ~tasks[t].closure_ran
                /\ tasks[t].got = <<>>
          /\ (tasks[t].pc = "done" /\ ~tasks[t].contended) =>
                /\ tasks[t].result = "Ok"
                /\ Len(tasks[t].got) = Len(AloneResult(tasks[t].op, t))

\* A flush was refused while another task stood between the seek and the read
\* of its scope.
C17_Witness ==
    \E t, u \in Tasks :
        /\ t # u
        /\ tasks[t].op = "flush"
        /\ tasks[t].result = "StreamInUse"
        /\ tasks[u].pc = "scope"
        /\ tasks[u].sought

\* C18: whatever the interleaving of the tasks, an operation that has returned
\* either returned StreamInUse or returned Ok with exactly what it reads when
\* it runs alone, and no read of any task was made where another task had put
\* the stream.
C18_AloneOrStreamInUse ==
    \A t \in Tasks :
        /\ ~tasks[t].foreign
        /\ tasks[t].pc = "done" =>
              \/ tasks[t].result = "StreamInUse"
              \/ /\ tasks[t].result = "Ok"
                 /\ tasks[t].got = AloneResult(tasks[t].op, t)

\* A File::read has returned its data and its allocation-table entry while the
\* other task holds the StreamInUse of a peek or read of its own.
C18_Witness ==
    \E t, u \in Tasks :
        /\ t # u
        /\ tasks[t].pc = "done"
        /\ tasks[t].op = "read"
        /\ tasks[t].result = "Ok"
        /\ tasks[u].result = "StreamInUse"
        /\ tasks[u].op \in {"peek", "read"}

\* ------------------------------------------------ sync and async: properties

\* C19: the async operations do what their sync counterparts do: the result of
\* the last seek or read on the File, and the File after it, are those the
\* other flavour of the operation gives on the same File, allocation table and
\* device behaviour; and the result of the last next on the item iterator, and
\* the entry iterator after it, are those the other flavour of next gives on
\* the same directory.
C19_AsyncEquivalentToSync ==
    /\ last.op = "seek" =>
          LET other == Seek(last.before, allocation_table, last.arg, ~is_async,
                            overflow_checks)
          IN  other.result = last.result /\ other.file = file
    /\ last.op = "read" =>
          \E actual \in 0 .. MaxBufLen :
             LET other == Read(last.before, allocation_table, last.len, actual,
                               ~is_async, overflow_checks)
             IN  other.result = last.result /\ other.file = file
    /\ item_last.op = "next" =>
          LET other == NextItem(item_last.before, directory, ~is_async)
          IN  /\ other.status = item_last.returned.status
              /\ other.item = item_last.returned.item
              /\ other.error = item_last.returned.error
              /\ other.entry_iterator = entry_iterator

\* ---------------------------------------------------------- volume: properties

\* The last part of the path of the last call.
FinalPart == Split(item_last.file_path)[Len(Split(item_last.file_path))]

\* The slot of the first record of the root directory table that is named FOO,
\* RootEntryCount when there is none.
FirstFoo ==
    IF \E i \in 1 .. RootEntryCount : directory[i].name = Foo
    THEN (CHOOSE i \in 1 .. RootEntryCount :
             /\ directory[i].name = Foo
             /\ \A j \in 1 .. (i - 1) : directory[j].name # Foo) - 1
    ELSE RootEntryCount

\* The slot of the first record of the directory that the first FOO of the root
\* directory table is.
FirstOfFoo == RootEntryCount + (EntryAt(FirstFoo).first_cluster_number - 2)

\* The last call opened "foo/bar.txt" on a volume where the first FOO of the
\* root directory is a directory whose first record is the file BAR.TXT.
OpenedBarTxtInFoo ==
    /\ item_last.op = "open"
    /\ Split(item_last.file_path) = <<<<102, 111, 111>>, <<98, 97, 114, 46, 116, 120, 116>>>>
    /\ FirstFoo < RootEntryCount
    /\ EntryAt(FirstFoo).is_directory
    /\ EntryAt(FirstOfFoo) = ShortNameEntry(BarTxt, FALSE, 0)

\* C20: open and open_async resolve a path part by part: the item they return
\* is a file that matches the last part of the path; a path of one part is looked
\* up in the root directory; and "foo/bar.txt" opens the file BAR.TXT that is the
\* first record of the directory FOO of the root directory.
C20_PathResolvedByComponent ==
    item_last.op = "open" =>
       /\ item_last.found.status = "Some" =>
             /\ IsMatch(item_last.found.item, FinalPart)
             /\ ~item_last.found.item.short_directory_entry.is_directory
             /\ Len(Split(item_last.file_path)) = 1 =>
                   item_last.found.slot < RootEntryCount
       /\ OpenedBarTxtInFoo =>
             /\ item_last.found.status = "Some"
             /\ ~item_last.found.item.long_name.is_some
             /\ item_last.found.item.short_directory_entry = EntryAt(FirstOfFoo)
             /\ item_last.found.slot = FirstOfFoo

\* ------------------------------------------------- invalid records: properties

\* The slots of the directory table that hold a record that does not decode.
InvalidSlots == {i \in 1 .. Len(directory) : directory[i] = InvalidEntry}

\* The slots that hold the ShortName record of a file the path of the last call
\* matches.
MatchingSlots ==
    {i \in 1 .. Len(directory) :
        /\ directory[i].tag = "ShortName"
        /\ ~directory[i].is_directory
        /\ IsMatch(DirectoryItem(directory[i], None), item_last.file_path)}

\* The last call opened a path in a directory table of ShortName records and one
\* record that does not decode, where a file that matches the path is stored
\* after that record and none before it.
InvalidBeforeMatch ==
    /\ item_last.op = "open"
    /\ Cardinality(InvalidSlots) = 1
    /\ \A i \in 1 .. Len(directory) : directory[i].tag \in {"ShortName", "Invalid"}
    /\ MatchingSlots # {}
    /\ \A i \in InvalidSlots, j \in MatchingSlots : i < j

\* The first of the matching slots, counted from 0 as the iterator counts.
FirstMatch ==
    (CHOOSE j \in MatchingSlots : \A k \in MatchingSlots : j <= k) - 1

\* C21: an invalid directory entry met during path lookup is not fatal: open and
\* open_async hand it to the callback once, skip it, and return the matching
\* file that is stored after it.
C21_InvalidEntrySkipped ==
    InvalidBeforeMatch =>
       /\ item_last.found.status = "Some"
       /\ Len(item_last.found.callbacks) = 1
       /\ item_last.found.slot = FirstMatch
       /\ item_last.found.item.short_directory_entry = EntryAt(FirstMatch)

\* ------------------------------------------------- boot sector: properties

\* C22: when reading the boot sector fails, FileSystem::new and new_async
\* return the fault of the device or the stream (DeviceError, StreamError,
\* StreamEndReached) and no other error.
C22_BootSectorFaultReturned ==
    (output.op = "new" /\ input.fault.at # "none") =>
       /\ output.result.status = "Err"
       /\ output.result.error = input.fault.error

\* The constraints on the fields of a boot sector that hold for every kind, each
\* by the name of the error that reports it.
CommonViolations(bytes) ==
    {e \in {"BytesPerSectorInvalid", "SectorsPerClusterInvalid",
            "ReservedSectorCountInvalid", "AllocationTableCountInvalid",
            "MediaTypeInvalid", "TotalSectorCountNotSet",
            "SectorsPerAllocationTableNotSet"} :
        CASE e = "BytesPerSectorInvalid" ->
                 bytes.bytes_per_sector \notin {512, 1024, 2048, 4096}
          [] e = "SectorsPerClusterInvalid" ->
                 ~\E k \in 0 .. 7 : bytes.sectors_per_cluster = 2 ^ k
          [] e = "ReservedSectorCountInvalid" -> ~(bytes.reserved_sector_count > 0)
          [] e = "AllocationTableCountInvalid" -> ~(bytes.allocation_table_count > 0)
          [] e = "MediaTypeInvalid" ->
                 ~(bytes.media_type = 240 \/ bytes.media_type \in 248 .. 255)
          [] e = "TotalSectorCountNotSet" ->
                 bytes.total_sector_count_16bit = 0 /\ bytes.total_sector_count_32bit = 0
          [] e = "SectorsPerAllocationTableNotSet" ->
                 /\ bytes.sectors_per_allocation_table_16bit = 0
                 /\ bytes.sectors_per_allocation_table_32bit = 0}

\* The constraints on a FAT32 boot sector.
Fat32Violations(bytes) ==
    {e \in {"RootDirectoryEntryCountInvalid", "TotalSectorCount16BitInvalid",
            "SectorsPerAllocationTable16BitInvalid", "FilesystemVersionUnsupported",
            "RootDirectoryFileClusterNumberInvalid", "FsInfoSectorNumberInvalid"} :
        CASE e = "RootDirectoryEntryCountInvalid" -> bytes.root_directory_entry_count # 0
          [] e = "TotalSectorCount16BitInvalid" -> bytes.total_sector_count_16bit # 0
          [] e = "SectorsPerAllocationTable16BitInvalid" ->
                 bytes.sectors_per_allocation_table_16bit # 0
          [] e = "FilesystemVersionUnsupported" -> bytes.filesystem_version # 0
          [] e = "RootDirectoryFileClusterNumberInvalid" ->
                 ~(bytes.root_directory_file_cluster_number >= 2)
          [] e = "FsInfoSectorNumberInvalid" -> ~(bytes.fs_info_sector_index >= 1)}

\* The constraints on a boot sector that is not FAT32.
NonFat32Violations(bytes) ==
    {e \in {"SectorsPerAllocationTable16BitInvalid", "RootDirectoryEntryCountInvalid"} :
        CASE e = "SectorsPerAllocationTable16BitInvalid" ->
                 bytes.sectors_per_allocation_table_16bit = 0
          [] e = "RootDirectoryEntryCountInvalid" ->
                 ~(bytes.root_directory_entry_count > 0)}

\* C24: from_boot_sector returns Ok only when every field constraint holds,
\* those of the kind of the volume included, and otherwise returns the error of
\* a violated field and no BiosParameterBlock: a boot sector that violates a
\* constraint whatever its kind is never parsed into anything but such an error.
C24_OkOnlyWhenFieldsValid ==
    output.op = "from_boot_sector" =>
       /\ output.result.status = "Ok" =>
             /\ CommonViolations(input) = {}
             /\ IF output.result.value.allocation_table_kind = "Fat32"
                THEN Fat32Violations(input) = {}
                ELSE NonFat32Violations(input) = {}
       /\ output.result.status # "Ok" =>
             output.result.value = NoBiosParameterBlock
       /\ (\/ CommonViolations(input) # {}
           \/ Fat32Violations(input) # {} /\ NonFat32Violations(input) # {}) =>
             /\ output.result.status = "Err"
             /\ output.result.error \in CommonViolations(input)
                                           \cup Fat32Violations(input)
                                           \cup NonFat32Violations(input)

\* The width an entry of the allocation table is stored in.
StoredBits(kind) ==
    CASE kind = "Fat12" -> 12
      [] kind = "Fat16" -> 16
      [] kind = "Fat32" -> 32

\* The number of whole entries that fit in the bytes of an allocation table.
WholeEntries(kind, allocation_table_bytes) ==
    (allocation_table_bytes * 8) \div StoredBits(kind)

\* C25: the allocation table of every accepted boot sector is large enough for
\* an entry of every data cluster and the two reserved entries.
C25_AllocationTableLargeEnough ==
    (output.op = "from_boot_sector" /\ output.result.status = "Ok") =>
       WholeEntries(output.result.value.allocation_table_kind,
                    output.result.value.sectors_per_allocation_table
                        * output.result.value.bytes_per_sector)
          >= (output.result.value.last_cluster_number - 1) + 2

\* C26: AllocationTableKind::new is exact at the boundaries: counts below 4085
\* are Fat12, counts from 4085 and below 65525 are Fat16, counts from 65525 are
\* Fat32.
C26_KindBoundariesExact ==
    output.op = "kind_new" =>
       /\ input \in 0 .. 4084 => output.result = "Fat12"
       /\ input \in 4085 .. 65524 => output.result = "Fat16"
       /\ input >= 65525 => output.result = "Fat32"

\* A count on a boundary has been classified.
C26_Witness ==
    /\ output.op = "kind_new"
    /\ input = 4085
    /\ output.result = "Fat16"

\* ------------------------------------------- allocation table: properties

\* C27: decoding a masked value is a total classification for every kind: each
\* value is 0 (Free), 1 (Reserved), in [2, bad_sector_value) (NextClusterNumber
\* of that value), bad_sector_value (BadSector), or at least end_of_chain_value
\* (EndOfFile).
C27_DecodingIsTotal ==
    output.op = "from_entry_value" =>
       LET v == input.entry_value
           bad == BadSectorValue(input.kind)
           end == EndOfChainValue(input.kind)
       IN  /\ v = 0 => output.result = Free
           /\ v = 1 => output.result = Reserved
           /\ (2 <= v /\ v < bad) => output.result = NextClusterNumber(v)
           /\ v = bad => output.result = BadSector
           /\ v >= end => output.result = EndOfFile
           /\ v = 0 \/ v = 1 \/ (2 <= v /\ v < bad) \/ v = bad \/ v >= end

\* The address of the entry of the cluster that was asked for, as the layout of
\* a table of the kind has it.
StoredAddress ==
    input.base_address
       + (CASE input.kind = "Fat12" ->
                   input.cluster_number + input.cluster_number \div 2
            [] input.kind = "Fat16" -> 2 * input.cluster_number
            [] input.kind = "Fat32" -> 4 * input.cluster_number)

\* The bytes of the stream of the state from that address on.
StoredAt(k) == StreamByte(input.stream, StoredAddress + k)

\* The value of the entry stored there.
StoredValue ==
    CASE input.kind = "Fat12" ->
             IF input.cluster_number % 2 = 1
             THEN ((StoredAt(0) + 256 * StoredAt(1)) \div 16) % 4096
             ELSE (StoredAt(0) + 256 * StoredAt(1)) % 4096
      [] input.kind = "Fat16" -> StoredAt(0) + 256 * StoredAt(1)
      [] input.kind = "Fat32" ->
             StoredAt(0) + 256 * StoredAt(1) + 65536 * StoredAt(2)
                + 16777216 * (StoredAt(3) % 16)

\* C28: read_entry of cluster c reads at base + c + c/2 (Fat12), base + 2c
\* (Fat16) or base + 4c (Fat32) and decodes the little-endian value there,
\* shifted right by 4 bits exactly when the kind is Fat12 and c is odd, masked
\* to 12, 16 or 28 bits.
C28_ReadEntryDecodesStoredValue ==
    output.op = "read_entry" =>
       /\ output.result.address = StoredAddress
       /\ output.result.entry = FromEntryValue(input.kind, StoredValue)

\* The entry of an odd cluster of a Fat12 table has been read where the nibble
\* it shares with its neighbour is not zero, and it chains to a cluster.
C28_Witness ==
    /\ output.op = "read_entry"
    /\ input.kind = "Fat12"
    /\ input.cluster_number % 2 = 1
    /\ StoredAt(0) % 16 # 0
    /\ output.result.entry.kind = "NextClusterNumber"

\* The bits of the four bytes that belong to the entry written: 12 from bit 0 or
\* bit 4 (Fat12), 16 (Fat16), the low 28 (Fat32).
EntrySpan ==
    LET first == IF input.is_nibble_offset THEN 4 ELSE 0
    IN  first .. (first + EntryBits(input.kind) - 1)

\* Bit i of four bytes.
WindowBit(bytes, i) == Bit(bytes[(i \div 8) + 1], i % 8)

\* C29: writing a physical entry into four bytes changes no bit outside the
\* span of the entry and puts the value of the entry into the span, and the
\* bytes read back give the logical entry that was written.
C29_WriteKeepsOtherBits ==
    (output.op = "write" /\ output.result.status = "Ok") =>
       /\ \A i \in BitIndices \ EntrySpan :
             WindowBit(output.result.bytes, i) = WindowBit(input.window, i)
       /\ \A i \in EntrySpan :
             WindowBit(output.result.bytes, i)
                = Bit(input.value, i - (IF input.is_nibble_offset THEN 4 ELSE 0))
       /\ output.result.read_back = output.result.written
       /\ output.result.read_back = FromEntryValue(input.kind, input.value)

\* An entry with clear bits has been written at a nibble offset into bytes
\* whose bits were all set.
C29_Witness ==
    /\ output.op = "write"
    /\ output.result.status = "Ok"
    /\ input.is_nibble_offset
    /\ input.window = <<255, 255, 255, 255>>
    /\ input.value = 2
    /\ output.result.bytes = <<47, 0, 255, 255>>

\* ---------------------------------------------------- ShortName: properties

\* C30: the checksum a LongName chain is validated against is the fold over the
\* 11 bytes of the ShortName record as they are on disk, and it is the same
\* after the entry is decoded and encoded again, also for a name whose first
\* byte is stored as 0x05.
C30_ChecksumOverStoredBytes ==
    output.op = "checksum" =>
       /\ output.result.checksum = Checksum(input)
       /\ Checksum(output.result.written) = Checksum(input)
       /\ output.result.checksum_again = output.result.checksum

\* ------------------------------------------------------ I/O faults: properties

\* The fault struck: the device call it fails was issued.
FaultStruck ==
    /\ output.op \in FaultyOperations
    /\ Len(output.result.issued) >= input.fault.at

FailedCall == output.result.issued[input.fault.at]

\* C23: when a device or stream call fails during read_entry, a peek or
\* advance of the entry iterator, File::read or File::seek, the operation
\* returns that fault (a short read_exact as StreamEndReached, another stream
\* fault as StreamError, a with_stream fault as DeviceError) and issues no
\* device call after the failed one.
C23_FaultReturnedAtOnce ==
    FaultStruck =>
        /\ output.result.returned
        /\ Len(output.result.issued) = input.fault.at
        /\ output.result.error =
              IF FailedCall.call = "with_stream"
              THEN "DeviceError"
              ELSE IF FailedCall.call = "read_exact" /\ input.fault.short
              THEN "StreamEndReached"
              ELSE "StreamError"

\* A seek that walks two clusters and whose second read_exact falls short.
C23_Witness ==
    /\ FaultStruck
    /\ output.op = "seek"
    /\ input.fault.at = 5
    /\ input.fault.short
    /\ FailedCall.call = "read_exact"
    /\ output.result.issued[3].call = "read_exact"
    /\ output.result.error = "StreamEndReached"

\* ------------------------------------------- directory records: properties

\* C31: a record is taken as Free::AllFollowing when its first byte is 0x00,
\* as Free::CurrentOnly when it is 0xE5, and otherwise as a LongName entry
\* exactly when the low nibble of the attribute byte is 0x0F, as a ShortName
\* entry in every other case.
C31_ClassifiedByFirstByteAndNibble ==
    output.op = "from_bytes" =>
        output.result.variant =
            IF input.first_byte = 0
            THEN "AllFollowing"
            ELSE IF input.first_byte = 229
            THEN "CurrentOnly"
            ELSE IF input.attributes % 16 = 15
            THEN "LongName"
            ELSE "ShortName"

\* ------------------------------------------------- File: reads and the end

\* The chain of the File is well formed and covers file_size bytes: it runs
\* over links to an EndOfFile entry, through clusters enough for the file.
ChainCoversFile ==
    \E count \in 1 .. Cardinality(Clusters) :
        LET final == ClusterAfter(allocation_table, file.first_cluster_number, count - 1)
        IN  /\ final # 0
            /\ allocation_table[final].kind = "EndOfFile"
            /\ count * file.bytes_per_cluster >= file.file_size

\* C32: on a File whose chain is well formed and covers file_size bytes, a read
\* into a non-empty buffer returns 0 without asking the device exactly when
\* current_position >= file_size; below file_size it asks the device for
\* bytes, cluster boundary or not, and file_size - current_position never
\* underflows.
C32_ZeroOnlyAtEndOfFile ==
    (last.op = "read" /\ last.len > 0 /\ ChainCoversFile) =>
        /\ last.result.status # "Panic"
        /\ last.before.current_position >= last.before.file_size =>
              /\ last.result.status = "Ok"
              /\ last.result.value = 0
              /\ last.data_reads = 0
        /\ last.before.current_position < last.before.file_size =>
              last.data_reads = 1

\* ------------------------------------------------- File: failing calls

\* The cursor of a File.
Cursor(f) ==
    <<f.current_position, f.current_cluster_number, f.current_cluster_offset>>

Sought == ResolveDesiredPosition(last.before, last.arg, overflow_checks)

SoughtPosition == Sought.value

\* C34: a seek to position p reads at most floor(p / bytes_per_cluster)
\* entries of the allocation table, whatever the chain: cyclic, or longer
\* than the file.
C34_SeekReadsBounded ==
    last.op = "seek" =>
        Len(last.reads) <=
            IF Sought.status = "Ok"
            THEN SoughtPosition \div last.before.bytes_per_cluster
            ELSE 0

\* C34 witness: a seek on a cyclic chain read as many entries as the bound
\* allows, more than the chain has clusters.
C34_Witness ==
    /\ last.op = "seek"
    /\ last.result.status = "Ok"
    /\ Len(last.reads) = SoughtPosition \div last.before.bytes_per_cluster
    /\ Len(last.reads) > Cardinality(Clusters)
    /\ ClusterAfter(allocation_table, last.before.first_cluster_number,
                    Cardinality(Clusters)) # 0

\* --------------------------------------------- cyclic directories: properties

\* C35: open returns on every disk image, after finitely many device reads,
\* also when the chain of a directory holds a cycle and no Free::AllFollowing
\* record is met.
C35_OpenReturns ==
    item_last.op = "open" => item_last.found.status # "Diverges"

\* ------------------------------------------------ large volumes: properties

\* The boot sector was accepted.
Accepted == output.op = "from_boot_sector" /\ output.result.status = "Ok"

\* C36: on every accepted boot sector the data cluster numbers, 2 to
\* last_cluster_number, are below bad_sector_value of the derived kind, and an
\* allocation-table entry that holds one of them decodes to NextClusterNumber.
C36_ClusterNumbersBelowBadSector ==
    Accepted =>
        LET block == output.result.value
            kind == block.allocation_table_kind
        IN  \A cluster_number \in {2, block.last_cluster_number} :
                /\ cluster_number < BadSectorValue(kind)
                /\ FromEntryValue(kind, cluster_number).kind = "NextClusterNumber"

\* The sectors the boot sector leaves to the data region, over the integers:
\* total_sectors - (reserved + table_count x sectors_per_table +
\* root_directory_sectors).
DataSectors(bytes) ==
    (IF bytes.total_sector_count_16bit > 0
     THEN bytes.total_sector_count_16bit
     ELSE bytes.total_sector_count_32bit)
        - (bytes.reserved_sector_count
              + bytes.allocation_table_count
                    * (IF bytes.sectors_per_allocation_table_16bit > 0
                       THEN bytes.sectors_per_allocation_table_16bit
                       ELSE bytes.sectors_per_allocation_table_32bit)
              + DivCeil(bytes.root_directory_entry_count * DIRECTORY_ENTRY_SIZE,
                        bytes.bytes_per_sector))

\* from_boot_sector got as far as the data cluster count: the seven checks
\* of the fields before it passed.
CountComputed ==
    /\ output.op = "from_boot_sector"
    /\ CommonViolations(input) = {}

\* C37: the data cluster count a boot sector is classified from is
\* floor(DataSectors / sectors_per_cluster) over the integers; a boot sector
\* whose DataSectors is negative is rejected with an error: it neither makes
\* the parser panic nor is accepted from a wrapped count.
C37_CountExactOrRejected ==
    CountComputed =>
        /\ DataSectors(input) < 0 => output.result.status = "Err"
        /\ output.result.status = "Ok" =>
              output.result.value.last_cluster_number - 1
                  = DataSectors(input) \div input.sectors_per_cluster

\* ------------------------------------------------ the regions: properties

\* C38: on an accepted boot sector the data region starts at the base address
\* of the directory table plus root_directory_sectors x bytes_per_sector, the
\* root directory rounded up to whole sectors as it was for the data cluster
\* count.
C38_DataRegionAfterRootSectors ==
    Accepted =>
        LET block == output.result.value
        IN  DataRegionBaseAddress(block) =
                DirectoryTableBaseAddress(block)
                    + DivCeil(block.root_directory_entry_count * DIRECTORY_ENTRY_SIZE,
                              block.bytes_per_sector)
                          * block.bytes_per_sector

\* --------------------------------------------------- addresses: properties

\* The address of the formula, in the unit the call computes in: bytes, or
\* records of 32 bytes for the entry iterator.
FormulaAddress ==
    CASE input.op = "file" ->
             DataRegionBase
                 + ((input.cluster_number - 2) * input.bytes_per_cluster)
                 + input.offset
      [] input.op = "iterator" ->
             (DataRegionBase \div DIRECTORY_ENTRY_SIZE)
                 + ((input.cluster_number - 2)
                        * (input.bytes_per_cluster \div DIRECTORY_ENTRY_SIZE))
                 + (input.offset \div DIRECTORY_ENTRY_SIZE)
      [] input.op = "table" ->
             input.bytes_per_cluster
                 + (CASE input.kind = "Fat12" ->
                             input.cluster_number + (input.cluster_number \div 2)
                      [] input.kind = "Fat16" -> input.cluster_number * 2
                      [] input.kind = "Fat32" -> input.cluster_number * 4)

\* C39: every address the File, the entry iterator of a directory file and the
\* allocation table compute is the integer of its formula: no step leaves its
\* width, and the cluster number of an address in the data region is at
\* least 2.
C39_AddressesExact ==
    output.op \in {"file", "iterator", "table"} =>
        /\ output.result.status = "Ok"
        /\ output.op # "table" => input.cluster_number >= 2
        /\ output.result.value = FormulaAddress

\* ------------------------------------------------- item builder: properties

AddedEntry == output.op = "add_long_name_entry"

\* The indices of the name buffer at which add_long_name_entry stores the code
\* units of a record it accepts (builder.rs:72-103): every unit up to and
\* including the first null; the padding after it is skipped.
StoredIndices(entry) ==
    {(EntryNumber(entry) - 1) * LONG_NAME_CHARACTERS_PER_ENTRY + (i - 1) :
        i \in {j \in 1 .. LONG_NAME_CHARACTERS_PER_ENTRY :
                  \A k \in 1 .. (j - 1) : entry.ucs2_characters[k] # NullCharacter}}

\* C40: for LongName records with entry numbers in 1 ..= 20, the builder
\* never stores outside its 255 units and never subtracts past zero: in every
\* builder a record is added to, current_entry_index does not exceed the entry
\* count the first record announced, so that entry_count - current_entry_index
\* is not negative, and a call of add_long_name_entry that succeeds has stored
\* every unit at an index below 255.
C40_BuilderStaysInBounds ==
    /\ input.long_name_state.is_some =>
           /\ input.current_entry_index <= input.long_name_state.value.entry_count
           /\ input.long_name_state.value.entry_count - input.current_entry_index >= 0
    /\ (AddedEntry /\ output.result.status = "Ok") =>
           LET entry == output.result.entry
           IN  \A index \in StoredIndices(entry) :
                   /\ index < LONG_NAME_MAX_LENGTH
                   /\ index \in DOMAIN input.long_name
                   /\ input.long_name[index]
                          = entry.ucs2_characters[
                                index - (EntryNumber(entry) - 1)
                                            * LONG_NAME_CHARACTERS_PER_ENTRY + 1]

\* A chain of 20 records is complete: its first record stored the unit of
\* index 254, and the record numbered 1 has just been accepted.
C40_Witness ==
    /\ AddedEntry
    /\ output.result.status = "Ok"
    /\ EntryNumber(output.result.entry) = 1
    /\ input.current_entry_index = LONG_NAME_MAX_ENTRY_COUNT
    /\ input.long_name_state.value.entry_count = LONG_NAME_MAX_ENTRY_COUNT
    /\ input.long_name[LONG_NAME_MAX_LENGTH - 1] = NullCharacter
    /\ input.long_name[LONG_NAME_MAX_LENGTH - 2] = FullStride[1]

====
